---- MODULE Spec2Model ----
(***************************************************************************)
(* A model of the SRP software rendering pipeline (kitrofimov/srp):        *)
(* framebuffer and fragment emission, the arena, the draw dispatcher with   *)
(* primitive assembly and the post-VS cache, and homogeneous clipping.      *)
(*                                                                         *)
(* C doubles are modelled as exact rationals <<n, d>> (d > 0, lowest        *)
(* terms); size_t values are integers modulo 2^WordBits.                    *)
(***************************************************************************)
EXTENDS Integers, Sequences, FiniteSets, TLC

VARIABLES
    fbW, fbH,       \* SRPFramebuffer.width / .height
    fbColor,        \* SRPFramebuffer.color: pixel index -> <<r, g, b, a>> (the bytes of the RGBA8888 word, red first)
    fbDepth,        \* SRPFramebuffer.depth: pixel index -> rational
    aborted,        \* the process was terminated (a failed assert(), a fault)
    assertFailed,   \* framebufferDrawPixel was called with its asserted condition false
    cleared,        \* srpFramebufferClear has been called on the framebuffer
    emitted         \* fragments handed to emitFragment since the last clear or in the draw call in progress, in emission order

\* clipTriangle in progress
VARIABLES
    clipPc,         \* position inside clipTriangle: "planes" (the loop over the planes), "done" (returned), "aborted"
    clipIn,         \* the input triangle: three SRPvsOutput
    clipPoly,       \* poly[0 .. polyCount-1]
    clipPlane,      \* the loop variable p
    clipOut,        \* the triangles written to out[], in order
    clipOverflow    \* a vertex was stored past the end of temp[] / poly[]

\* the buffers, shaders and context a draw call works on
VARIABLES
    vb,             \* SRPVertexBuffer: the vertices, as the vertex shader transforms them
    ibData,         \* SRPIndexBuffer: the indices
    stray,          \* what lies in memory past the end of the index data and of the vertex data
    ctx,            \* srpContext: cullFace, frontFace, pointSize
    varyingSize,    \* sp->vs->nBytesPerOutputVariables
    arena,          \* srpContext.arena: pageSize, the chain of pages, the index of current
    messages,       \* calls of srpMessageCallbackHelper in the call in progress, in order
    drawPc,         \* position inside drawBuffer: "idle" (not in a call), "raster", "return", "aborted"
    draw,           \* the arguments of the drawBuffer call in progress
    drawPath,       \* the path the last call took through drawBuffer
    vsCalls,        \* vertex indices the vertex shader was invoked for in the call in progress, in order
    prims,          \* assembled primitives not yet rasterized
    frags,          \* fragments of the primitive being rasterized not yet emitted
    drawsDone       \* number of drawBuffer calls made

\* calls of the topology functions and of the context setters and getters
VARIABLES
    topoIn,         \* the arguments of the topology computation in progress: prim, base, vertexCount
    topoOut,        \* what it has returned so far: the primitive count and the indices of the primitives resolved
    ctxCall,        \* the last srpContextSet / srpContextGet call: function, parameter, data, returned value
    ctxCalls,       \* number of such calls made
    callIn,         \* the arguments of a call of one function of the pipeline on its own
    callOut         \* what that call has returned or done so far

fbVars == <<fbW, fbH, fbColor, fbDepth, aborted, assertFailed, cleared, emitted>>
clipVars == <<clipPc, clipIn, clipPoly, clipPlane, clipOut, clipOverflow>>
drawVars == <<vb, ibData, stray, ctx, varyingSize, arena, messages, drawPc, draw, drawPath,
              vsCalls, prims, frags, drawsDone>>
callVars == <<topoIn, topoOut, ctxCall, ctxCalls, callIn, callOut>>
vars == <<fbVars, clipVars, drawVars, callVars>>

\* no topology computation, no context call and no call of a function on its
\* own has been made
CallIdle ==
    /\ topoIn = <<>> /\ topoOut = <<>> /\ ctxCall = <<>> /\ ctxCalls = 0
    /\ callIn = <<>> /\ callOut = <<>>

-----------------------------------------------------------------------------
(* Exact rational arithmetic standing for C double arithmetic.             *)

Abs(x) == IF x < 0 THEN -x ELSE x

RECURSIVE Gcd(_, _)
Gcd(a, b) == IF b = 0 THEN a ELSE Gcd(b, a % b)

\* the rational n/d (d # 0) in lowest terms with a positive denominator
R(n, d) ==
    LET g == Gcd(Abs(n), Abs(d))
        s == IF d < 0 THEN -1 ELSE 1
    IN  <<(s * n) \div g, (s * d) \div g>>

RInt(n) == <<n, 1>>
RAdd(a, b) == R(a[1] * b[2] + b[1] * a[2], a[2] * b[2])
RSub(a, b) == R(a[1] * b[2] - b[1] * a[2], a[2] * b[2])
RMul(a, b) == R(a[1] * b[1], a[2] * b[2])
RDiv(a, b) == R(a[1] * b[2], a[2] * b[1])
RNeg(a) == <<-a[1], a[2]>>
RLt(a, b) == a[1] * b[2] < b[1] * a[2]
RLe(a, b) == a[1] * b[2] <= b[1] * a[2]
RGt(a, b) == RLt(b, a)
RGe(a, b) == RLe(b, a)
RAbs(a) == <<Abs(a[1]), a[2]>>
RMin(a, b) == IF RGt(a, b) THEN b ELSE a
RMax(a, b) == IF RGt(a, b) THEN a ELSE b
\* floor(), ceil() and the truncating conversion (int) / (uint8_t) of a double
RFloor(a) == a[1] \div a[2]
RCeil(a) == -((-a[1]) \div a[2])
RTrunc(a) == IF a[1] >= 0 THEN a[1] \div a[2] ELSE -((-a[1]) \div a[2])

-----------------------------------------------------------------------------
(* Framebuffer                                                             *)

Pixels == 0 .. (fbW * fbH - 1)

ClearDepth == <<-1, 1>>
ClearColor == <<0, 0, 0, 0>>

\* framebufferGetPixelPointer / framebufferGetDepthPointer: the element index
PixelIndex(x, y) == y * fbW + x

framebufferDepthTestGE(x, y, depth) == RGe(depth, fbDepth[PixelIndex(x, y)])

\* framebufferDepthTest: strictly greater than the stored depth
framebufferDepthTest(x, y, depth) == RGt(depth, fbDepth[PixelIndex(x, y)])

\* the condition framebufferDrawPixel asserts: depth >= -1 && depth < 1
DrawPixelAssertion(depth) == RGe(depth, RInt(-1)) /\ RLt(depth, RInt(1))

\* CLAMP(0, 255, c * 255) converted to uint8_t
ColorChannel(c) ==
    LET v == RMul(c, RInt(255))
    IN  IF RLt(v, RInt(0)) THEN 0
        ELSE IF RGt(v, RInt(255)) THEN 255
        ELSE RTrunc(v)

\* SRPColor {r, g, b, a} as SRP_COLOR_TO_UINT32_T packs it: red is the most significant byte
PackColor(c) == <<ColorChannel(c[1]), ColorChannel(c[2]), ColorChannel(c[3]), ColorChannel(c[4])>>

\* the depth emitFragment uses: fragCoord[2] unless the shader set fragDepth (NaN = not set)
FragmentDepth(fragZ, fsOut) == IF fsOut.depthIsNaN THEN fragZ ELSE fsOut.fragDepth

\* a framebufferDrawPixel that stores the color and leaves the depth plane alone
framebufferDrawPixelColorOnly(x, y, depth, color) ==
    /\ fbColor' = [fbColor EXCEPT ![PixelIndex(x, y)] = color]
    /\ UNCHANGED <<fbDepth, aborted, assertFailed>>

\* framebufferDrawPixel: both planes are written together.  When the asserted
\* condition is false the build decides: assert() aborts the process, or
\* (NDEBUG) the write goes ahead.
framebufferDrawPixel(x, y, depth, color) ==
    \/ /\ assertFailed' = (assertFailed \/ ~DrawPixelAssertion(depth))
       /\ fbColor' = [fbColor EXCEPT ![PixelIndex(x, y)] = color]
       /\ fbDepth' = [fbDepth EXCEPT ![PixelIndex(x, y)] = depth]
       /\ UNCHANGED aborted
    \/ /\ ~DrawPixelAssertion(depth)
       /\ assertFailed' = TRUE
       /\ aborted' = TRUE
       /\ UNCHANGED <<fbColor, fbDepth>>

\* emitFragment: run the fragment shader (its output is fsOut), clamp and
\* pack the color, choose the depth, depth-test, write.  Nothing compares x
\* and y with the framebuffer's size: the planes are indexed at y * width + x.
\* An index outside the planes is an access to foreign memory, which faults
\* or goes unnoticed.
emitFragment(x, y, fragZ, fsOut) ==
    LET color == PackColor(fsOut.color)
        depth == FragmentDepth(fragZ, fsOut)
        inPlanes == PixelIndex(x, y) \in Pixels
    IN  /\ emitted' = Append(emitted,
                [x |-> x, y |-> y, depth |-> depth, color |-> color,
                 stored |-> IF inPlanes THEN fbDepth[PixelIndex(x, y)] ELSE depth])
        /\ IF inPlanes
           THEN IF framebufferDepthTest(x, y, depth)
                THEN framebufferDrawPixel(x, y, depth, color)
                ELSE UNCHANGED <<fbColor, fbDepth, aborted, assertFailed>>
           ELSE /\ aborted' \in {aborted, TRUE}
                /\ UNCHANGED <<fbColor, fbDepth, assertFailed>>

\* an srpFramebufferClear that zeroes the color plane and leaves the depth plane
srpFramebufferClearColorOnly ==
    /\ fbColor' = [p \in Pixels |-> ClearColor]
    /\ cleared' = TRUE
    /\ emitted' = <<>>
    /\ UNCHANGED <<fbW, fbH, fbDepth, aborted, assertFailed>>

\* srpFramebufferClear
srpFramebufferClear ==
    /\ fbColor' = [p \in Pixels |-> ClearColor]
    /\ fbDepth' = [p \in Pixels |-> ClearDepth]
    /\ cleared' = TRUE
    /\ emitted' = <<>>
    /\ UNCHANGED <<fbW, fbH, aborted, assertFailed>>

-----------------------------------------------------------------------------
(* Fragment specification: a framebuffer receiving arbitrary fragments.     *)

MaxFrags == 2       \* fragments emitted between two clears

\* depths below, at and above both ends of the depth range
DepthValues == { R(-3, 2), RInt(-1), RInt(0), R(1, 2), RInt(1), R(3, 2) }
FbSizes == { <<2, 1>>, <<1, 2>> }
\* fragment shader color outputs: opaque red, and an out-of-range / fractional color
ShaderColors == { <<RInt(1), RInt(0), RInt(0), RInt(1)>>,
                  <<RInt(-1), R(1, 2), RInt(2), RInt(1)>> }
FsOutputs ==
    [color : ShaderColors, depthIsNaN : {TRUE}, fragDepth : {RInt(0)}]
    \cup [color : ShaderColors, depthIsNaN : {FALSE}, fragDepth : DepthValues]

\* no clipTriangle call is in progress
ClipIdle ==
    /\ clipPc = "idle"
    /\ clipIn = <<>>
    /\ clipPoly = <<>>
    /\ clipPlane = 0
    /\ clipOut = <<>>
    /\ clipOverflow = FALSE

\* no context, buffers or draw call
DrawIdle ==
    /\ vb = <<>>
    /\ ibData = <<>>
    /\ stray = <<>>
    /\ ctx = <<>>
    /\ varyingSize = 0
    /\ arena = <<>>
    /\ messages = <<>>
    /\ drawPc = "idle"
    /\ draw = <<>>
    /\ drawPath = ""
    /\ vsCalls = <<>>
    /\ prims = <<>>
    /\ frags = <<>>
    /\ drawsDone = 0

\* srpNewFramebuffer: the planes are malloc'ed and not initialized
InitFrag ==
    /\ ClipIdle
    /\ DrawIdle
    /\ CallIdle
    /\ \E s \in FbSizes : fbW = s[1] /\ fbH = s[2]
    /\ fbDepth = [p \in 0 .. 1 |-> RInt(0)]
    /\ fbColor = [p \in 0 .. 1 |-> <<0, 0, 0, 255>>]
    /\ aborted = FALSE
    /\ assertFailed = FALSE
    /\ cleared = FALSE
    /\ emitted = <<>>

FragClear ==
    /\ ~aborted
    /\ srpFramebufferClear
    /\ UNCHANGED clipVars
    /\ UNCHANGED drawVars
    /\ UNCHANGED callVars

FragEmit ==
    /\ ~aborted
    /\ Len(emitted) < MaxFrags
    /\ \E x \in 0 .. (fbW - 1), y \in 0 .. (fbH - 1), z \in DepthValues, o \in FsOutputs :
          emitFragment(x, y, z, o)
    /\ UNCHANGED <<fbW, fbH, cleared>>
    /\ UNCHANGED clipVars
    /\ UNCHANGED drawVars
    /\ UNCHANGED callVars

NextFrag == FragClear \/ FragEmit

SpecFrag == InitFrag /\ [][NextFrag]_vars

-----------------------------------------------------------------------------
(* Claims about fragment emission                                          *)

\* the fragment an emitFragment step has just handled
LastFrag == emitted'[Len(emitted')]
EmitStep == Len(emitted') = Len(emitted) + 1

\* C1: an emitFragment step writes the pixel only when the fragment's depth is
\* strictly greater than the stored depth; no stored depth ever decreases, the
\* written pixel's depth strictly increases, only the fragment's own pixel is
\* touched, and a fragment whose depth equals the stored depth changes nothing.
C1_DepthMonotonic ==
    [][EmitStep =>
        LET f == LastFrag
            p == PixelIndex(f.x, f.y)
        IN  /\ \A q \in Pixels : RGe(fbDepth'[q], fbDepth[q])
            /\ \A q \in Pixels \ {p} : fbDepth'[q] = fbDepth[q] /\ fbColor'[q] = fbColor[q]
            /\ (fbDepth'[p] # fbDepth[p] \/ fbColor'[p] # fbColor[p])
                    => (RGt(f.depth, fbDepth[p]) /\ fbDepth'[p] = f.depth)
            /\ RLe(f.depth, fbDepth[p]) => (fbDepth' = fbDepth /\ fbColor' = fbColor)
      ]_vars

\* C1 witness: at one pixel a fragment passed and was written, then a fragment
\* of exactly the stored depth was discarded
C1_Witness ==
    /\ cleared /\ ~aborted /\ Len(emitted) = 2
    /\ emitted[1].x = emitted[2].x /\ emitted[1].y = emitted[2].y
    /\ RGt(emitted[1].depth, emitted[1].stored)
    /\ emitted[2].depth = emitted[2].stored
    /\ emitted[2].color # emitted[1].color
    /\ fbDepth[PixelIndex(emitted[1].x, emitted[1].y)] = emitted[1].depth

\* the fragments emitted at pixel p since the clear, in emission order
FragsAt(p) == SelectSeq(emitted, LAMBDA f : PixelIndex(f.x, f.y) = p)

\* the positions in a pixel's fragment sequence whose depth exceeds the clear
\* depth and every depth emitted before it at that pixel
Passers(seq) ==
    { i \in 1 .. Len(seq) :
        /\ RGt(seq[i].depth, ClearDepth)
        /\ \A j \in 1 .. (i - 1) : RGt(seq[i].depth, seq[j].depth) }

LastPasser(seq) == CHOOSE i \in Passers(seq) : \A j \in Passers(seq) : j <= i

\* C2: after a clear, every pixel holds the color and the depth of the last
\* fragment, in emission order, whose depth exceeded all depths that passed
\* before it (the clear values when no fragment passed): color and depth are
\* those of one and the same fragment.
C2_LastWriterWins ==
    (cleared /\ ~aborted) =>
        \A p \in Pixels :
            LET seq == FragsAt(p)
            IN  IF Passers(seq) = {}
                THEN fbColor[p] = ClearColor /\ fbDepth[p] = ClearDepth
                ELSE /\ fbColor[p] = seq[LastPasser(seq)].color
                     /\ fbDepth[p] = seq[LastPasser(seq)].depth

\* C2 witness: a pixel received two fragments of different colors and the
\* first one, not the last, is the one stored
C2_Witness ==
    /\ cleared /\ ~aborted
    /\ \E p \in Pixels :
          LET seq == FragsAt(p)
          IN  /\ Len(seq) = 2
              /\ Passers(seq) = {1}
              /\ seq[1].color # seq[2].color
              /\ fbColor[p] = seq[1].color

\* C4: the condition asserted by framebufferDrawPixel (depth >= -1 && depth < 1)
\* holds at every call, for every fragment that passes the depth test.
C4_DrawPixelAssertionHolds == ~assertFailed

-----------------------------------------------------------------------------
(* Clipping in homogeneous clip space                                      *)
(* A vertex (SRPvsOutput) is [pos |-> <<x, y, z, w>>, vary |-> v]: its clip *)
(* position and one double varying.                                         *)

EpsInv == 1000000000    \* 1 / EPSILON
PlaneCount == 6         \* PLANE_COUNT
PolyCapacity == 6       \* SRPvsOutput poly[6], temp[6]

\* ROUGHLY_ZERO(x): fabs(x) <= EPSILON
RoughlyZero(a) == Abs(a[1]) <= a[2] \div EpsInv

\* x >= -EPSILON
GeNegEps(a) == a[1] >= 0 \/ Abs(a[1]) <= a[2] \div EpsInv

\* planeDistance: LEFT x+w, RIGHT w-x, BOTTOM y+w, TOP w-y, NEAR z+w, FAR w-z
planeDistance(v, p) ==
    LET x == v.pos[1]
        y == v.pos[2]
        z == v.pos[3]
        w == v.pos[4]
    IN  CASE p = 0 -> RAdd(x, w)
          [] p = 1 -> RSub(w, x)
          [] p = 2 -> RAdd(y, w)
          [] p = 3 -> RSub(w, y)
          [] p = 4 -> RAdd(z, w)
          [] p = 5 -> RSub(w, z)

\* a * (1-t) + b * t
Lerp(a, b, t) == RAdd(RMul(a, RSub(RInt(1), t)), RMul(b, t))

\* interpolateVertex: position and varyings with the affine weights (1-t, t)
interpolateVertex(a, b, t) ==
    [pos  |-> [i \in 1 .. 4 |-> Lerp(a.pos[i], b.pos[i], t)],
     vary |-> Lerp(a.vary, b.vary, t)]

\* one iteration of clipAgainstPlane's loop: the vertices the edge
\* current -> next appends to out[]
ClipEdge(current, next, plane) ==
    LET da == planeDistance(current, plane)
        db == planeDistance(next, plane)
        currInside == RGt(da, RInt(0))
        nextInside == RGt(db, RInt(0))
    IN  IF currInside /\ nextInside THEN <<next>>
        ELSE IF currInside \/ nextInside
        THEN IF RoughlyZero(RSub(da, db)) THEN <<>>
             ELSE <<interpolateVertex(current, next, RDiv(da, RSub(da, db)))>>
                  \o (IF ~currInside /\ nextInside THEN <<next>> ELSE <<>>)
        ELSE <<>>

RECURSIVE ClipEdgesFrom(_, _, _)
ClipEdgesFrom(in, i, plane) ==
    IF i > Len(in) THEN <<>>
    ELSE ClipEdge(in[i], in[(i % Len(in)) + 1], plane) \o ClipEdgesFrom(in, i + 1, plane)

\* clipAgainstPlane: everything the pass writes to out[], in order
clipAgainstPlane(in, plane) == IF Len(in) = 0 THEN <<>> ELSE ClipEdgesFrom(in, 1, plane)

\* a fan anchored at the polygon's last vertex
TriangulateFromLast(poly) ==
    [i \in 1 .. (Len(poly) - 2) |-> <<poly[Len(poly)], poly[i], poly[i + 1]>>]

\* the fan (poly[0], poly[i], poly[i+1]) for i = 1 .. polyCount-2
Triangulate(poly) == [i \in 1 .. (Len(poly) - 2) |-> <<poly[1], poly[i + 1], poly[i + 2]>>]

\* clip-space vertices: inside the volume, on a plane, outside one or more planes, w of both signs
ClipPositions ==
    { <<0, 0, 0, 1>>, <<-1, 1, 0, 2>>, <<1, -1, 1, 2>>, <<1, 1, -1, 2>>,
      <<1, 0, 0, 1>>, <<0, 0, 1, 1>>,
      <<-3, -3, 0, 1>>, <<3, 2, 0, 1>>, <<0, 3, 0, 1>>, <<3, -3, 0, 1>>,
      <<0, 0, 3, 1>>, <<0, 0, -3, 2>>, <<1, 0, 0, -1>> }

MkVertex(p, v) == [pos |-> <<RInt(p[1]), RInt(p[2]), RInt(p[3]), RInt(p[4])>>, vary |-> RInt(v)]

\* what a read past the end of poly[] / temp[] may find
GarbageVertex == MkVertex(<<7, 7, 7, 1>>, 0)

\* a vertex stored past the end of temp[] is read back as it was written, or not
OverflowModes == {"kept", "garbage"}

\* poly[] after the copy back from temp[]
StoredPoly(out, mode) ==
    [i \in 1 .. Len(out) |-> IF i > PolyCapacity /\ mode = "garbage" THEN GarbageVertex ELSE out[i]]

\* clipTriangle from plane p on: the returned triangles, the number of
\* vertices written (each with its own arena allocation), and whether a
\* polygon outgrew the buffers
RECURSIVE ClipFrom(_, _, _)

\* the rest of the call after a pass wrote out[] and the later passes gave r
ClipAfter(out, r) ==
    [tris |-> r.tris, nAlloc |-> Len(out) + r.nAlloc,
     overflow |-> r.overflow \/ Len(out) > PolyCapacity]

\* the call from the pass of plane p on, that pass having written out[]
ClipPass(out, p, mode) ==
    IF Len(out) = 0
    THEN [tris |-> <<>>, nAlloc |-> 0, overflow |-> FALSE]
    ELSE ClipAfter(out, ClipFrom(StoredPoly(out, mode), p + 1, mode))

ClipFrom(poly, p, mode) ==
    IF p = PlaneCount
    THEN [tris |-> Triangulate(poly), nAlloc |-> 0, overflow |-> FALSE]
    ELSE ClipPass(clipAgainstPlane(poly, p), p, mode)

\* clipTriangle
clipTriangle(in, mode) == [ClipFrom(in, 0, mode) EXCEPT !.nAlloc = @ + 3]

FbIdle ==
    /\ fbW = 1 /\ fbH = 1
    /\ fbColor = [p \in {0} |-> ClearColor]
    /\ fbDepth = [p \in {0} |-> ClearDepth]
    /\ aborted = FALSE
    /\ assertFailed = FALSE
    /\ cleared = FALSE
    /\ emitted = <<>>

\* clipTriangle entered: poly[0..2] are deep copies of the input's vertices
InitClip ==
    /\ FbIdle
    /\ DrawIdle
    /\ CallIdle
    /\ \E p0 \in ClipPositions, p1 \in ClipPositions, p2 \in ClipPositions :
          clipIn = <<MkVertex(p0, 1), MkVertex(p1, 2), MkVertex(p2, 3)>>
    /\ clipPoly = clipIn
    /\ clipPlane = 0
    /\ clipPc = "planes"
    /\ clipOut = <<>>
    /\ clipOverflow = FALSE

\* one iteration of clipTriangle's loop over the planes
ClipPlaneStep ==
    /\ clipPc = "planes"
    /\ clipPlane < PlaneCount
    /\ LET out == clipAgainstPlane(clipPoly, clipPlane)
       IN  IF Len(out) > PolyCapacity
           THEN \* out[6..] lie past the end of temp[]: the assert stops the
                \* process, or (NDEBUG) the loop goes on with whatever the
                \* out-of-bounds slots hold when they are read back
                /\ clipOverflow' = TRUE
                /\ \/ /\ clipPc' = "aborted"
                      /\ aborted' = TRUE
                      /\ UNCHANGED <<clipPoly, clipPlane, clipOut>>
                   \/ /\ \E mode \in OverflowModes : clipPoly' = StoredPoly(out, mode)
                      /\ clipPlane' = clipPlane + 1
                      /\ UNCHANGED <<clipPc, clipOut, aborted>>
           ELSE IF Len(out) = 0
           THEN /\ clipPc' = "done"
                /\ clipOut' = <<>>
                /\ UNCHANGED <<clipPoly, clipPlane, clipOverflow, aborted>>
           ELSE /\ clipPoly' = out
                /\ clipPlane' = clipPlane + 1
                /\ UNCHANGED <<clipPc, clipOut, clipOverflow, aborted>>
    /\ UNCHANGED <<clipIn, fbW, fbH, fbColor, fbDepth, assertFailed, cleared, emitted>>
    /\ UNCHANGED drawVars
    /\ UNCHANGED callVars

\* the fan triangulation after the last plane, and the return
ClipTriangulate ==
    /\ clipPc = "planes"
    /\ clipPlane = PlaneCount
    /\ clipOut' = Triangulate(clipPoly)
    /\ clipPc' = "done"
    /\ UNCHANGED <<clipIn, clipPoly, clipPlane, clipOverflow>>
    /\ UNCHANGED fbVars
    /\ UNCHANGED drawVars
    /\ UNCHANGED callVars

NextClip == ClipPlaneStep \/ ClipTriangulate

SpecClip == InitClip /\ [][NextClip]_vars

-----------------------------------------------------------------------------
(* Claims about clipTriangle                                               *)

Inside(v) == \A p \in 0 .. (PlaneCount - 1) : RGt(planeDistance(v, p), RInt(0))
Sound(v) == \A p \in 0 .. (PlaneCount - 1) : GeNegEps(planeDistance(v, p))

\* C9: when clipTriangle has returned, every vertex of every returned triangle
\* has signed distance >= -EPSILON to each of the six planes.
C9_ClipSoundness ==
    clipPc = "done" => \A i \in 1 .. Len(clipOut) : \A k \in 1 .. 3 : Sound(clipOut[i][k])

\* the same, for the calls in which no polygon outgrew poly[] / temp[]
ClipSoundWithoutOverflow ==
    (clipPc = "done" /\ ~clipOverflow) =>
        \A i \in 1 .. Len(clipOut) : \A k \in 1 .. 3 : Sound(clipOut[i][k])

\* C10: for an input whose three vertices are inside all six planes,
\* clipTriangle returns exactly one triangle, whose vertices are the input's
\* in the same order, with equal positions and equal varyings.
C10_InsideUnchanged ==
    (clipPc = "done" /\ \A k \in 1 .. 3 : Inside(clipIn[k])) => clipOut = <<clipIn>>

\* C10 witness: clipTriangle returned for an all-inside triangle of three distinct vertices
C10_Witness ==
    /\ clipPc = "done"
    /\ \A k \in 1 .. 3 : Inside(clipIn[k])
    /\ clipIn[1].pos # clipIn[2].pos /\ clipIn[2].pos # clipIn[3].pos /\ clipIn[1].pos # clipIn[3].pos
    /\ Len(clipOut) = 1

-----------------------------------------------------------------------------
(* The arena                                                               *)

DefaultArenaCapacity == 1048576     \* SRP_DEFAULT_ARENA_CAPACITY

AlignUp8(x) == ((x + 7) \div 8) * 8

newBlock(capacity) == [capacity |-> capacity, used |-> 0]

\* newArena: one page, which is head and current
newArena(capacity) ==
    LET pageSize == IF capacity < DefaultArenaCapacity THEN DefaultArenaCapacity ELSE capacity
    IN  [pageSize |-> pageSize, pages |-> <<newBlock(pageSize)>>, current |-> 1]

RECURSIVE DoubleUntil(_, _)
DoubleUntil(size, requested) == IF size < requested THEN DoubleUntil(size * 2, requested) ELSE size

neededBlockSize(a, requested) == DoubleUntil(a.pageSize, requested)

\* an arenaAlloc that bumps the page without aligning the offset
arenaAllocUnaligned(a, size) ==
    IF size = 0 THEN a
    ELSE LET cur == a.pages[a.current]
         IN  IF cur.used + size > cur.capacity
             THEN [a EXCEPT !.pages = SubSeq(a.pages, 1, a.current)
                                        \o <<[capacity |-> neededBlockSize(a, size), used |-> size]>>,
                            !.current = a.current + 1]
             ELSE [a EXCEPT !.pages[a.current].used = cur.used + size]

\* arenaAlloc: bump the current page, or chain a new page after it and make it current
arenaAlloc(a, size) ==
    IF size = 0 THEN a
    ELSE LET cur == a.pages[a.current]
             alignedUsed == AlignUp8(cur.used)
         IN  IF alignedUsed + size > cur.capacity
             THEN [a EXCEPT !.pages = SubSeq(a.pages, 1, a.current)
                                        \o <<[capacity |-> neededBlockSize(a, size), used |-> size]>>,
                            !.current = a.current + 1]
             ELSE [a EXCEPT !.pages[a.current].used = alignedUsed + size]

RECURSIVE SumUsed(_)
SumUsed(pages) == IF pages = <<>> THEN 0 ELSE Head(pages).used + SumUsed(Tail(pages))

\* an arenaReset that frees the pages after the head and keeps the head as it is
arenaResetKeepHead(a) == [a EXCEPT !.pages = <<a.pages[1]>>, !.current = 1]

\* arenaReset: free the pages after the head; replace the head by a larger
\* page when the draw used more than a page, else rewind it
arenaReset(a) ==
    LET sumUsed == SumUsed(a.pages)
    IN  IF sumUsed > a.pageSize
        THEN LET pageSize == neededBlockSize(a, sumUsed)
             IN  [pageSize |-> pageSize, pages |-> <<newBlock(pageSize)>>, current |-> 1]
        ELSE [pageSize |-> a.pageSize,
              pages |-> <<[a.pages[1] EXCEPT !.used = 0]>>,
              current |-> 1]

\* the allocations of sizes[1], sizes[2], ... in order: those of the first
\* half of the sequence, then, from the arena they leave, those of the second
RECURSIVE AllocAll(_, _)
AllocAll(a, sizes) ==
    IF sizes = <<>> THEN a
    ELSE IF Len(sizes) = 1 THEN arenaAlloc(a, sizes[1])
    ELSE LET half == Len(sizes) \div 2
         IN  CHOOSE r \in { AllocAll(m, SubSeq(sizes, half + 1, Len(sizes))) :
                               m \in { AllocAll(a, SubSeq(sizes, 1, half)) } } : TRUE

-----------------------------------------------------------------------------
(* Buffers, topology and the post-VS cache                                 *)

WordBits == 5                   \* width of size_t in the model
SizeMax == 2 ^ WordBits - 1     \* SIZE_MAX
\* size_t arithmetic
Wrap(n) == n % (SizeMax + 1)

SizeofPoint == 48               \* sizeof(SRPPoint)
SizeofLine == 152               \* sizeof(SRPLine)
SizeofTriangle == 456           \* sizeof(SRPTriangle)
SizeofCacheEntry == 48          \* sizeof(VertexCacheEntry)

TrianglePrimitives == {"TRIANGLES", "TRIANGLE_STRIP", "TRIANGLE_FAN"}
LinePrimitives == {"LINES", "LINE_STRIP", "LINE_LOOP"}
PointPrimitives == {"POINTS"}

isPrimitiveTriangle(primitive) == primitive \in TrianglePrimitives
isPrimitiveLine(primitive) == primitive \in LinePrimitives
isPrimitivePoint(primitive) == primitive \in PointPrimitives

Message(type, severity, func) == [type |-> type, severity |-> severity, func |-> func]

\* checkOOB: the last stream index touched against the buffer's length
EndIndex(startIndex, count) == Wrap(startIndex + count - 1)
BufferSize(useIb) == IF useIb THEN Len(ibData) ELSE Len(vb)
checkOOB(useIb, startIndex, count) == EndIndex(startIndex, count) >= BufferSize(useIb)

\* indexIndexBuffer: no comparison with nIndices
indexIndexBuffer(index) == IF index < Len(ibData) THEN ibData[index + 1] ELSE stray.index

\* indexVertexBuffer and the vertex shader run on what it points to: no
\* comparison with nVertices
indexVertexBuffer(index) == IF index < Len(vb) THEN vb[index + 1] ELSE stray.vertex

\* the vertex index of a stream index
VertexIndex(useIb, streamIndex) == IF useIb THEN indexIndexBuffer(streamIndex) ELSE streamIndex

computeTriangleCount(vertexCount, prim) ==
    IF prim = "TRIANGLES" THEN vertexCount \div 3
    ELSE IF vertexCount >= 3 THEN vertexCount - 2 ELSE 0

\* a resolveTriangleTopology that keeps the first two vertices of the odd
\* triangles of a strip in stream order
resolveTriangleTopologyUnswapped(base, rawTriIdx, prim) ==
    CASE prim = "TRIANGLES" ->
            <<Wrap(base + rawTriIdx * 3), Wrap(base + rawTriIdx * 3 + 1), Wrap(base + rawTriIdx * 3 + 2)>>
      [] prim = "TRIANGLE_STRIP" ->
            <<Wrap(base + rawTriIdx), Wrap(base + rawTriIdx + 1), Wrap(base + rawTriIdx + 2)>>
      [] prim = "TRIANGLE_FAN" ->
            <<base, Wrap(base + rawTriIdx + 1), Wrap(base + rawTriIdx + 2)>>

resolveTriangleTopology(base, rawTriIdx, prim) ==
    CASE prim = "TRIANGLES" ->
            <<Wrap(base + rawTriIdx * 3), Wrap(base + rawTriIdx * 3 + 1), Wrap(base + rawTriIdx * 3 + 2)>>
      [] prim = "TRIANGLE_STRIP" ->
            LET odd == rawTriIdx % 2 = 1
            IN  <<Wrap(base + rawTriIdx + (IF odd THEN 1 ELSE 0)),
                  Wrap(base + rawTriIdx + (IF odd THEN 0 ELSE 1)),
                  Wrap(base + rawTriIdx + 2)>>
      [] prim = "TRIANGLE_FAN" ->
            <<base, Wrap(base + rawTriIdx + 1), Wrap(base + rawTriIdx + 2)>>

computeLineCount(vertexCount, prim) ==
    CASE prim = "LINES" -> IF vertexCount % 2 = 0 THEN vertexCount \div 2 ELSE (vertexCount - 1) \div 2
      [] prim = "LINE_STRIP" -> IF vertexCount # 1 THEN Wrap(vertexCount - 1) ELSE 0
      [] prim = "LINE_LOOP" -> IF vertexCount # 1 THEN vertexCount ELSE 0

resolveLineTopology(base, rawLineIdx, prim, vertexCount) ==
    CASE prim = "LINES" -> <<Wrap(base + rawLineIdx * 2), Wrap(base + rawLineIdx * 2 + 1)>>
      [] prim = "LINE_STRIP" -> <<Wrap(base + rawLineIdx), Wrap(base + rawLineIdx + 1)>>
      [] prim = "LINE_LOOP" -> <<Wrap(base + rawLineIdx), Wrap(base + ((rawLineIdx + 1) % vertexCount))>>

\* a warnOnExcessVertexCount without the test for SRP_PRIM_TRIANGLES
warnOnExcessVertexCountLines(prim, vertexCount) ==
    IF prim = "LINES" /\ vertexCount % 2 # 0
    THEN <<Message("WARNING", "LOW", "warnOnExcessVertexCount")>>
    ELSE <<>>

\* warnOnExcessVertexCount
warnOnExcessVertexCount(prim, vertexCount) ==
    IF (prim = "LINES" /\ vertexCount % 2 # 0) \/ (prim = "TRIANGLES" /\ vertexCount % 3 # 0)
    THEN <<Message("WARNING", "LOW", "warnOnExcessVertexCount")>>
    ELSE <<>>

SetMin(S) == CHOOSE m \in S : \A n \in S : m <= n
SetMax(S) == CHOOSE m \in S : \A n \in S : m >= n

\* computeMinMaxVI
computeMinMaxVI(useIb, startIndex, vertexCount) ==
    IF useIb
    THEN LET vis == { indexIndexBuffer(Wrap(startIndex + i)) : i \in 0 .. (vertexCount - 1) }
         IN  <<SetMin(vis), SetMax(vis)>>
    ELSE <<startIndex, Wrap(startIndex + vertexCount - 1)>>

\* allocateVertexCache: baseVertex, size, and the zeroed entries (none valid)
allocateVertexCache(useIb, startIndex, vertexCount) ==
    LET mm == computeMinMaxVI(useIb, startIndex, vertexCount)
    IN  [baseVertex |-> mm[1], size |-> Wrap(mm[2] - mm[1] + 1), valid |-> {}]

\* the entry vertexCacheFetch looks at
CacheSlot(cache, vertexIndex) == Wrap(vertexIndex - cache.baseVertex)

\* vertexCacheFetch for vis[1], vis[2], ... in order: the vertex indices
\* processVertex is called with
RECURSIVE FetchCalls(_, _)
FetchCalls(cache, vis) ==
    IF vis = <<>> THEN <<>>
    ELSE LET slot == CacheSlot(cache, Head(vis))
         IN  IF slot \in cache.valid
             THEN FetchCalls(cache, Tail(vis))
             ELSE <<Head(vis)>> \o FetchCalls([cache EXCEPT !.valid = @ \cup {slot}], Tail(vis))

\* the sequences s[1] \o s[2] \o ...
RECURSIVE Flatten(_)
Flatten(s) == IF s = <<>> THEN <<>> ELSE Head(s) \o Flatten(Tail(s))

-----------------------------------------------------------------------------
(* Rasterization: the fragments of a primitive, in emission order          *)

Half == <<1, 2>>

\* round(): to nearest, halves away from zero
RRound(a) == IF a[1] >= 0 THEN RFloor(RAdd(a, Half)) ELSE -RFloor(RAdd(RNeg(a), Half))

\* framebufferNDCToScreenSpace
framebufferNDCToScreenSpace(ndc) ==
    <<RMul(R(fbW - 1, 2), RAdd(ndc[1], RInt(1))),
      RNeg(RMul(R(fbH - 1, 2), RSub(ndc[2], RInt(1)))),
      ndc[3]>>

\* the same pixels, columns first
ColumnMajor(minX, maxX, minY, maxY) ==
    IF maxX < minX \/ maxY < minY THEN <<>>
    ELSE LET n == maxY - minY + 1
         IN  [i \in 1 .. (n * (maxX - minX + 1)) |-> <<minX + ((i - 1) \div n), minY + ((i - 1) % n)>>]

\* the pixels (x, y) of minX .. maxX by minY .. maxY, rows first
RowMajor(minX, maxX, minY, maxY) ==
    IF maxX < minX \/ maxY < minY THEN <<>>
    ELSE LET n == maxX - minX + 1
         IN  [i \in 1 .. (n * (maxY - minY + 1)) |-> <<minX + ((i - 1) % n), minY + ((i - 1) \div n)>>]

SeqMap(f(_), seq) == [i \in 1 .. Len(seq) |-> f(seq[i])]

\* a rasterizePoint whose coverage test takes the far sides of the square in
rasterizePointInclusive(point) ==
    LET ss == framebufferNDCToScreenSpace(point.v.pos)
        halfSize == RMul(ctx.pointSize, Half)
        minBPx == RSub(ss[1], halfSize)
        minBPy == RSub(ss[2], halfSize)
        maxBPx == RAdd(ss[1], halfSize)
        maxBPy == RAdd(ss[2], halfSize)
        minX == RFloor(minBPx)
        maxX == RFloor(maxBPx)
        minY == RFloor(minBPy)
        maxY == RFloor(maxBPy)
        covered(q) ==
            LET px == RAdd(RInt(q[1]), Half)
                py == RAdd(RInt(q[2]), Half)
            IN  ~(RLt(px, minBPx) \/ RGt(px, maxBPx) \/ RLt(py, minBPy) \/ RGt(py, maxBPy))
        frag(q) == [x |-> q[1], y |-> q[2], z |-> point.v.pos[3], id |-> point.id,
                    fragCoord |-> <<RAdd(RInt(q[1]), Half), RAdd(RInt(q[2]), Half),
                                    point.v.pos[3], point.v.pos[4]>>,
                    frontFacing |-> TRUE]
    IN  IF maxX < 0 \/ maxY < 0 \/ minX >= fbW \/ minY >= fbH THEN <<>>
        ELSE SeqMap(frag, SelectSeq(RowMajor(IF minX < 0 THEN 0 ELSE minX,
                                             IF maxX >= fbW THEN fbW - 1 ELSE maxX,
                                             IF minY < 0 THEN 0 ELSE minY,
                                             IF maxY >= fbH THEN fbH - 1 ELSE maxY),
                                    covered))

\* rasterizePoint with computeMathAndRasterBoundaries: the square of side
\* pointSize around the position, its pixel bounds clamped to the framebuffer
rasterizePoint(point) ==
    LET ss == framebufferNDCToScreenSpace(point.v.pos)
        halfSize == RMul(ctx.pointSize, Half)
        minBPx == RSub(ss[1], halfSize)
        minBPy == RSub(ss[2], halfSize)
        maxBPx == RAdd(ss[1], halfSize)
        maxBPy == RAdd(ss[2], halfSize)
        minX == RFloor(minBPx)
        maxX == RFloor(maxBPx)
        minY == RFloor(minBPy)
        maxY == RFloor(maxBPy)
        covered(q) ==
            LET px == RAdd(RInt(q[1]), Half)
                py == RAdd(RInt(q[2]), Half)
            IN  ~(RLt(px, minBPx) \/ RGe(px, maxBPx) \/ RLt(py, minBPy) \/ RGe(py, maxBPy))
        frag(q) == [x |-> q[1], y |-> q[2], z |-> point.v.pos[3], id |-> point.id,
                    fragCoord |-> <<RAdd(RInt(q[1]), Half), RAdd(RInt(q[2]), Half),
                                    point.v.pos[3], point.v.pos[4]>>,
                    frontFacing |-> TRUE]
    IN  IF maxX < 0 \/ maxY < 0 \/ minX >= fbW \/ minY >= fbH THEN <<>>
        ELSE SeqMap(frag, SelectSeq(RowMajor(IF minX < 0 THEN 0 ELSE minX,
                                             IF maxX >= fbW THEN fbW - 1 ELSE maxX,
                                             IF minY < 0 THEN 0 ELSE minY,
                                             IF maxY >= fbH THEN fbH - 1 ELSE maxY),
                                    covered))

\* setupLine and rasterizeLine: steps + 1 fragments along the segment between
\* the screen-space images of the two positions
rasterizeLine(line) ==
    LET ss0 == framebufferNDCToScreenSpace(line.v[1].pos)
        ss1 == framebufferNDCToScreenSpace(line.v[2].pos)
        dx == RSub(ss1[1], ss0[1])
        dy == RSub(ss1[2], ss0[2])
        ceiled == RCeil(RMax(RAbs(dx), RAbs(dy)))
        steps == IF ceiled = 0 THEN 1 ELSE ceiled
        xInc == RDiv(dx, RInt(steps))
        yInc == RDiv(dy, RInt(steps))
    IN  [k \in 1 .. (steps + 1) |->
            [x |-> RRound(RAdd(ss0[1], RMul(RInt(k - 1), xInc))),
             y |-> RRound(RAdd(ss0[2], RMul(RInt(k - 1), yInc))),
             z |-> Lerp(line.v[1].pos[3], line.v[2].pos[3], R(k - 1, steps)),
             id |-> line.id,
             t |-> R(k - 1, steps),
             frontFacing |-> TRUE]]

\* applyPerspectiveDivide
applyPerspectiveDivide(v) ==
    LET invW == RDiv(RInt(1), v.pos[4])
    IN  [v EXCEPT !.pos = <<RMul(v.pos[1], invW), RMul(v.pos[2], invW), RMul(v.pos[3], invW), RInt(1)>>]

\* signedAreaParallelogram
signedAreaParallelogram(a, b) == RSub(RMul(a[1], b[2]), RMul(a[2], b[1]))

Sub2(a, b) == <<RSub(a[1], b[1]), RSub(a[2], b[2])>>

\* isEdgeFlatTopOrLeft
isEdgeFlatTopOrLeft(edge) == (RGt(edge[1], RInt(0)) /\ RoughlyZero(edge[2])) \/ RLt(edge[2], RInt(0))

\* a shouldCullTriangle that culls the faces the context keeps
CullDecisionOpposite(signedArea) ==
    LET pos == RGt(signedArea, RInt(0))
        neg == RLt(signedArea, RInt(0))
        frontFacing == (pos /\ ctx.frontFace = "CCW") \/ (neg /\ ctx.frontFace = "CW")
    IN  IF ctx.cullFace = "FRONT_AND_BACK" THEN <<TRUE, pos, FALSE>>
        ELSE <<(frontFacing /\ ctx.cullFace = "BACK") \/ (~frontFacing /\ ctx.cullFace = "FRONT"),
               pos, frontFacing>>

\* shouldCullTriangle: <<cull, isCCW, frontFacing>>
CullDecision(signedArea) ==
    LET pos == RGt(signedArea, RInt(0))
        neg == RLt(signedArea, RInt(0))
        frontFacing == (pos /\ ctx.frontFace = "CCW") \/ (neg /\ ctx.frontFace = "CW")
    IN  IF ctx.cullFace = "FRONT_AND_BACK" THEN <<TRUE, pos, FALSE>>
        ELSE <<(frontFacing /\ ctx.cullFace = "FRONT") \/ (~frontFacing /\ ctx.cullFace = "BACK"),
               pos, frontFacing>>

shouldCullTriangle(v) ==
    CullDecision(signedAreaParallelogram(Sub2(v[2].pos, v[1].pos), Sub2(v[3].pos, v[1].pos)))

\* setupTriangle after the culling decision, for the vertices v in
\* counter-clockwise order, their screen-space images ss and the edges
SetupRaster(v, frontFacing, ss, edge, areaX2, minBP) ==
    LET point == <<RAdd(RInt(minBP[1]), Half), RAdd(RInt(minBP[2]), Half)>>
    IN  IF RoughlyZero(areaX2) THEN [success |-> FALSE]
        ELSE [success |-> TRUE, kind |-> "triangle", v |-> v, isFrontFacing |-> frontFacing,
              minBP |-> minBP,
              maxBP |-> <<RCeil(RMax(ss[1][1], RMax(ss[2][1], ss[3][1]))),
                          RCeil(RMax(ss[1][2], RMax(ss[2][2], ss[3][2])))>>,
              lambda |-> <<RDiv(signedAreaParallelogram(Sub2(point, ss[2]), edge[2]), areaX2),
                           RDiv(signedAreaParallelogram(Sub2(point, ss[3]), edge[3]), areaX2),
                           RDiv(signedAreaParallelogram(Sub2(point, ss[1]), edge[1]), areaX2)>>,
              dldx |-> <<RDiv(edge[2][2], areaX2), RDiv(edge[3][2], areaX2), RDiv(edge[1][2], areaX2)>>,
              dldy |-> <<RDiv(RNeg(edge[2][1]), areaX2), RDiv(RNeg(edge[3][1]), areaX2),
                         RDiv(RNeg(edge[1][1]), areaX2)>>,
              edgeTL |-> [i \in 1 .. 3 |-> isEdgeFlatTopOrLeft(edge[i])]]

SetupEdges(v, frontFacing, ss, edge) ==
    SetupRaster(v, frontFacing, ss, edge, RAbs(signedAreaParallelogram(edge[1], edge[3])),
                <<RFloor(RMin(ss[1][1], RMin(ss[2][1], ss[3][1]))),
                  RFloor(RMin(ss[1][2], RMin(ss[2][2], ss[3][2])))>>)

SetupScreen(v, frontFacing, ss) ==
    SetupEdges(v, frontFacing, ss, [i \in 1 .. 3 |-> Sub2(ss[(i % 3) + 1], ss[i])])

\* triangleChangeWinding when the triangle is not counter-clockwise
SetupCulled(d, c) ==
    IF c[1] THEN [success |-> FALSE]
    ELSE SetupScreen(IF c[2] THEN d ELSE <<d[1], d[3], d[2]>>, c[3],
                     IF c[2]
                     THEN [i \in 1 .. 3 |-> framebufferNDCToScreenSpace(d[i].pos)]
                     ELSE <<framebufferNDCToScreenSpace(d[1].pos),
                            framebufferNDCToScreenSpace(d[3].pos),
                            framebufferNDCToScreenSpace(d[2].pos)>>)

SetupDivided(d) == SetupCulled(d, shouldCullTriangle(d))

\* a winding change that leaves invW[] as it was
triangleInvWKept(tri) == [i \in 1 .. 3 |-> RDiv(RInt(1), tri[i].pos[4])]

\* invW[] of a triangle after setupTriangle: 1 / w of each vertex from
\* applyPerspectiveDivide, the last two swapped by triangleChangeWinding
\* when the triangle is not counter-clockwise
triangleInvW(tri) ==
    LET invW == [i \in 1 .. 3 |-> RDiv(RInt(1), tri[i].pos[4])]
        isCCW == shouldCullTriangle([i \in 1 .. 3 |-> applyPerspectiveDivide(tri[i])])[2]
    IN  IF isCCW THEN invW ELSE <<invW[1], invW[3], invW[2]>>

\* setupTriangle: perspective divide, culling, winding, screen space, the
\* bounding box, and the barycentric coordinates at the first pixel center
setupTriangle(tri) == SetupDivided([i \in 1 .. 3 |-> applyPerspectiveDivide(tri[i])])

\* the barycentric coordinates that rasterizeTriangle holds when it visits
\* pixel q: those of the first pixel center, stepped by dldx and dldy
triangleLambdaAt(tri, q) ==
    [i \in 1 .. 3 |-> RAdd(tri.lambda[i],
                           RAdd(RMul(RInt(q[1] - tri.minBP[1]), tri.dldx[i]),
                                RMul(RInt(q[2] - tri.minBP[2]), tri.dldy[i])))]

\* rasterizeTriangle: the pixels of [minBP, maxBP) whose center passes the
\* top-left rule and has no negative barycentric coordinate
rasterizeTriangle(tri) ==
    LET covered(q) ==
            LET l == triangleLambdaAt(tri, q)
            IN  /\ \A i \in 1 .. 3 : ~(RoughlyZero(l[i]) /\ ~tri.edgeTL[i])
                /\ \A i \in 1 .. 3 : RGe(l[i], RInt(0))
        frag(q) ==
            LET l == triangleLambdaAt(tri, q)
            IN  [x |-> q[1], y |-> q[2],
                 z |-> RAdd(RMul(tri.v[1].pos[3], l[1]),
                            RAdd(RMul(tri.v[2].pos[3], l[2]), RMul(tri.v[3].pos[3], l[3]))),
                 id |-> tri.id,
                 lambda |-> l,
                 frontFacing |-> tri.isFrontFacing]
    IN  SeqMap(frag, SelectSeq(RowMajor(tri.minBP[1], tri.maxBP[1] - 1,
                                        tri.minBP[2], tri.maxBP[2] - 1), covered))

\* the fragments of an assembled primitive
Rasterize(prim) ==
    CASE prim.kind = "point" -> rasterizePoint(prim)
      [] prim.kind = "line" -> rasterizeLine(prim)
      [] prim.kind = "triangle" -> rasterizeTriangle(prim)

-----------------------------------------------------------------------------
(* Primitive assembly and the draw dispatcher                              *)

\* the varyings of n vertex shader outputs
VaryingSlab(n) == n * varyingSize

\* assemblePoints
assemblePoints(useIb, startIndex, count) ==
    IF RLe(ctx.pointSize, RInt(0)) THEN [success |-> FALSE, messages |-> <<>>]
    ELSE LET vis == [k \in 1 .. count |-> VertexIndex(useIb, Wrap(startIndex + k - 1))]
         IN  [success |-> TRUE, messages |-> <<>>, overflow |-> FALSE,
              allocs |-> <<SizeofPoint * count, VaryingSlab(count)>>,
              vsCalls |-> vis,
              prims |-> [k \in 1 .. count |->
                            [kind |-> "point", v |-> indexVertexBuffer(vis[k]), id |-> k - 1]]]

AssembleLinesFetched(prim, vertexCount, nLines, cache, vis) ==
    [success |-> TRUE, messages |-> warnOnExcessVertexCount(prim, vertexCount), overflow |-> FALSE,
     allocs |-> <<SizeofLine * nLines, SizeofCacheEntry * cache.size, VaryingSlab(cache.size)>>,
     vsCalls |-> FetchCalls(cache, Flatten(vis)),
     prims |-> [k \in 1 .. nLines |->
                   [kind |-> "line",
                    v |-> <<indexVertexBuffer(vis[k][1]), indexVertexBuffer(vis[k][2])>>,
                    id |-> k - 1]]]

\* assembleLines with assembleOneLine
assembleLines(useIb, prim, startIndex, vertexCount) ==
    LET nLines == computeLineCount(vertexCount, prim)
    IN  IF nLines = 0
        THEN [success |-> FALSE, messages |-> warnOnExcessVertexCount(prim, vertexCount)]
        ELSE AssembleLinesFetched(prim, vertexCount, nLines,
                                  allocateVertexCache(useIb, startIndex, vertexCount),
                                  [k \in 1 .. nLines |->
                                      LET si == resolveLineTopology(startIndex, k - 1, prim, vertexCount)
                                      IN  <<VertexIndex(useIb, si[1]), VertexIndex(useIb, si[2])>>])

\* a numbering in which a triangle that setupTriangle rejects uses up an id
RECURSIVE NumberTrianglesAll(_, _)
NumberTrianglesAll(setups, id) ==
    IF setups = <<>> THEN <<>>
    ELSE IF Head(setups).success
    THEN <<[kind |-> "triangle", id |-> id] @@ Head(setups)>> \o NumberTrianglesAll(Tail(setups), id + 1)
    ELSE NumberTrianglesAll(Tail(setups), id + 1)

\* the triangles of a sequence of setupTriangle results that succeeded, numbered in order
RECURSIVE NumberTriangles(_, _)
NumberTriangles(setups, id) ==
    IF setups = <<>> THEN <<>>
    ELSE IF Head(setups).success
    THEN <<[kind |-> "triangle", id |-> id] @@ Head(setups)>> \o NumberTriangles(Tail(setups), id + 1)
    ELSE NumberTriangles(Tail(setups), id)

\* assembleTriangles after the vertex fetches (vis: the vertex indices of
\* each triangle) and the clipTriangle calls (clipped: their results)
AssembleClipped(prim, vertexCount, nUnclipped, cache, vis, clipped) ==
    [success |-> TRUE, messages |-> warnOnExcessVertexCount(prim, vertexCount),
     overflow |-> \E k \in 1 .. nUnclipped : clipped[k].overflow,
     allocs |-> <<SizeofCacheEntry * cache.size, VaryingSlab(cache.size),
                  nUnclipped * 4 * SizeofTriangle>>
                \o Flatten([k \in 1 .. nUnclipped |->
                               [j \in 1 .. clipped[k].nAlloc |-> varyingSize]]),
     vsCalls |-> FetchCalls(cache, Flatten(vis)),
     prims |-> NumberTriangles(
                   Flatten([k \in 1 .. nUnclipped |-> SeqMap(setupTriangle, clipped[k].tris)]), 0)]

AssembleFetched(prim, vertexCount, nUnclipped, cache, vis, mode) ==
    AssembleClipped(prim, vertexCount, nUnclipped, cache, vis,
                    [k \in 1 .. nUnclipped |->
                        clipTriangle([i \in 1 .. 3 |-> indexVertexBuffer(vis[k][i])], mode)])

\* assembleTriangles
assembleTriangles(useIb, prim, startIndex, vertexCount, mode) ==
    LET nUnclipped == computeTriangleCount(vertexCount, prim)
    IN  IF nUnclipped = 0
        THEN [success |-> FALSE, messages |-> warnOnExcessVertexCount(prim, vertexCount)]
        ELSE AssembleFetched(prim, vertexCount, nUnclipped,
                             allocateVertexCache(useIb, startIndex, vertexCount),
                             [k \in 1 .. nUnclipped |->
                                 LET si == resolveTriangleTopology(startIndex, k - 1, prim)
                                 IN  [i \in 1 .. 3 |-> VertexIndex(useIb, si[i])]],
                             mode)

NoDraw(path, msgs) ==
    [path |-> path, messages |-> msgs, vsCalls |-> <<>>, allocs |-> <<>>, prims |-> <<>>, overflow |-> FALSE]

Assembled(path, a, interpolatedBuffer) ==
    IF a.success
    THEN [path |-> path, messages |-> a.messages, vsCalls |-> a.vsCalls,
          allocs |-> a.allocs \o interpolatedBuffer, prims |-> a.prims, overflow |-> a.overflow]
    ELSE NoDraw("notAssembled", a.messages)

\* drawTriangles up to the rasterization loop
drawTriangles(useIb, primitive, startIndex, count, mode) ==
    IF ctx.cullFace = "FRONT_AND_BACK" THEN NoDraw("cullAll", <<>>)
    ELSE Assembled("triangles", assembleTriangles(useIb, primitive, startIndex, count, mode), <<varyingSize>>)

\* drawLines up to the rasterization loop
drawLines(useIb, primitive, startIndex, count) ==
    Assembled("lines", assembleLines(useIb, primitive, startIndex, count), <<varyingSize>>)

\* drawPoints up to the rasterization loop
drawPoints(useIb, startIndex, count) ==
    Assembled("points", assemblePoints(useIb, startIndex, count), <<>>)

\* drawBuffer: the checks, the dispatch on the primitive, and the assembly
Dispatch(useIb, primitive, startIndex, count, mode) ==
    IF count = 0 THEN NoDraw("count0", <<>>)
    ELSE IF checkOOB(useIb, startIndex, count)
    THEN NoDraw("oob", <<Message("ERROR", "HIGH", "checkOOB")>>)
    ELSE IF isPrimitiveTriangle(primitive) THEN drawTriangles(useIb, primitive, startIndex, count, mode)
    ELSE IF isPrimitiveLine(primitive) THEN drawLines(useIb, primitive, startIndex, count)
    ELSE IF isPrimitivePoint(primitive) THEN drawPoints(useIb, startIndex, count)
    ELSE NoDraw("unknown", <<Message("ERROR", "HIGH", "drawBuffer")>>)

-----------------------------------------------------------------------------
(* Draw specification: draw calls and clears on one framebuffer            *)

MaxDraws == 1       \* drawBuffer calls

\* three vertices that span the viewport, two left of the left plane, and a
\* triangle that the planes cut into a polygon of seven vertices
SceneVertices ==
    <<MkVertex(<<-1, -1, 0, 1>>, 1), MkVertex(<<1, -1, 0, 1>>, 2), MkVertex(<<0, 1, 0, 1>>, 3),
      MkVertex(<<-3, 0, 0, 1>>, 4), MkVertex(<<-3, 2, 0, 1>>, 5),
      MkVertex(<<-3, -3, 0, 1>>, 6), MkVertex(<<-1, 1, 0, 2>>, 7), MkVertex(<<3, 2, 0, 1>>, 8)>>

\* index data with a repeated index
RepeatedIndices == <<0, 1, 2, 2>>
\* index data with indices of vertices outside the volume and an index past the last vertex
OutsideIndices == <<3, 4, 3, 8>>

\* what lies past the end of the buffers: zeroes, or something else
ZeroStray == [index |-> 0, vertex |-> MkVertex(<<0, 0, 0, 1>>, 0)]
OtherStray == [index |-> 9, vertex |-> GarbageVertex]

\* context settings with the size of the vertex shader's varyings; the last
\* does not fit a page of the arena
DefaultContext == [cullFace |-> "NONE", frontFace |-> "CCW", pointSize |-> RInt(1), varyingSize |-> 8]
NothingContext ==
    [cullFace |-> "FRONT_AND_BACK", frontFace |-> "CCW", pointSize |-> RInt(0), varyingSize |-> 8]
LargeContext ==
    [cullFace |-> "BACK", frontFace |-> "CW", pointSize |-> RInt(2),
     varyingSize |-> DefaultArenaCapacity + 8]

Scenes ==
    { [context |-> DefaultContext, indices |-> RepeatedIndices, stray |-> ZeroStray],
      [context |-> DefaultContext, indices |-> OutsideIndices, stray |-> ZeroStray],
      [context |-> DefaultContext, indices |-> OutsideIndices, stray |-> OtherStray],
      [context |-> NothingContext, indices |-> RepeatedIndices, stray |-> ZeroStray],
      [context |-> LargeContext, indices |-> RepeatedIndices, stray |-> OtherStray],
      [context |-> LargeContext, indices |-> OutsideIndices, stray |-> ZeroStray] }

Primitives == TrianglePrimitives \cup LinePrimitives \cup PointPrimitives \cup {"UNKNOWN"}

\* <<startIndex, count>>
DrawRanges == { <<0, 0>>, <<0, 1>>, <<0, 3>>, <<0, 4>>, <<2, 2>>, <<2, 3>>, <<5, 3>>, <<SizeMax, 2>> }

\* the fragment shader: opaque white, depth left alone
FragmentShader(frag) ==
    [color |-> <<RInt(1), RInt(1), RInt(1), RInt(1)>>, depthIsNaN |-> TRUE, fragDepth |-> RInt(0)]

\* srpNewContext, srpNewFramebuffer (planes not initialized), buffers and shaders set up
InitDraw ==
    /\ ClipIdle
    /\ CallIdle
    /\ fbW = 3 /\ fbH = 3
    /\ fbDepth = [p \in 0 .. 8 |-> RInt(0)]
    /\ fbColor = [p \in 0 .. 8 |-> <<0, 0, 0, 255>>]
    /\ aborted = FALSE
    /\ assertFailed = FALSE
    /\ cleared = FALSE
    /\ emitted = <<>>
    /\ vb = SceneVertices
    /\ \E scene \in Scenes :
          /\ ibData = scene.indices
          /\ stray = scene.stray
          /\ ctx = [cullFace |-> scene.context.cullFace, frontFace |-> scene.context.frontFace,
                    pointSize |-> scene.context.pointSize]
          /\ varyingSize = scene.context.varyingSize
    /\ arena = newArena(DefaultArenaCapacity)
    /\ messages = <<>>
    /\ drawPc = "idle"
    /\ draw = <<>>
    /\ drawPath = ""
    /\ vsCalls = <<>>
    /\ prims = <<>>
    /\ frags = <<>>
    /\ drawsDone = 0

\* drawBuffer from its entry to the first rasterizer call, or to its return
\* when it returns before; r is what the checks, the dispatch and the assembly give
DrawStep(useIb, primitive, startIndex, count, r) ==
        /\ draw' = [useIb |-> useIb, primitive |-> primitive, startIndex |-> startIndex, count |-> count]
        /\ drawPath' = r.path
        /\ messages' = r.messages
        /\ vsCalls' = r.vsCalls
        /\ emitted' = <<>>
        /\ frags' = <<>>
        /\ drawsDone' = drawsDone + 1
        /\ IF r.path \in {"triangles", "lines", "points"}
           THEN \/ /\ arena' = AllocAll(arena, r.allocs)
                   /\ prims' = r.prims
                   /\ drawPc' = "raster"
                   /\ UNCHANGED aborted
                \/ \* assert(polyCount <= 6) fails
                   /\ r.overflow
                   /\ aborted' = TRUE
                   /\ drawPc' = "aborted"
                   /\ UNCHANGED <<arena, prims>>
           ELSE /\ drawPc' = "return"
                /\ UNCHANGED <<arena, prims, aborted>>
        /\ UNCHANGED <<fbW, fbH, fbColor, fbDepth, assertFailed, cleared>>
        /\ UNCHANGED <<vb, ibData, stray, ctx, varyingSize>>
        /\ UNCHANGED clipVars
        /\ UNCHANGED callVars

\* r is the outcome when nothing is lost past the end of clipTriangle's
\* buffers; when a polygon outgrows them the outcomes are those of every mode
DrawOutcomes(useIb, primitive, startIndex, count, r) ==
    IF r.overflow
    THEN \E mode \in OverflowModes :
            DrawStep(useIb, primitive, startIndex, count,
                     Dispatch(useIb, primitive, startIndex, count, mode))
    ELSE DrawStep(useIb, primitive, startIndex, count, r)

drawBuffer(useIb, primitive, startIndex, count) ==
    DrawOutcomes(useIb, primitive, startIndex, count,
                 Dispatch(useIb, primitive, startIndex, count, "kept"))

DrawBuffer ==
    /\ drawPc = "idle"
    /\ drawsDone < MaxDraws
    /\ \E useIb \in BOOLEAN, primitive \in Primitives, range \in DrawRanges :
          drawBuffer(useIb, primitive, range[1], range[2])

\* the rasterizer is called for the next primitive
RasterizeNext ==
    /\ drawPc = "raster"
    /\ frags = <<>>
    /\ prims # <<>>
    /\ frags' = Rasterize(Head(prims))
    /\ prims' = Tail(prims)
    /\ UNCHANGED <<vb, ibData, stray, ctx, varyingSize, arena, messages, drawPc, draw, drawPath,
                   vsCalls, drawsDone>>
    /\ UNCHANGED fbVars
    /\ UNCHANGED clipVars
    /\ UNCHANGED callVars

\* the rasterizer hands its next fragment to emitFragment, which runs the
\* fragment shader fs of the shader program
EmitWith(fs(_)) ==
    /\ drawPc = "raster"
    /\ frags # <<>>
    /\ LET f == Head(frags) IN emitFragment(f.x, f.y, f.z, fs(f))
    /\ frags' = Tail(frags)
    /\ drawPc' = IF aborted' THEN "aborted" ELSE drawPc
    /\ UNCHANGED <<fbW, fbH, cleared>>
    /\ UNCHANGED <<vb, ibData, stray, ctx, varyingSize, arena, messages, draw, drawPath,
                   vsCalls, prims, drawsDone>>
    /\ UNCHANGED clipVars
    /\ UNCHANGED callVars

EmitNext == EmitWith(FragmentShader)

\* the records of a call are dropped when it returns
ForgetCall ==
    /\ draw' = <<>>
    /\ vsCalls' = <<>>
    /\ messages' = <<>>
    /\ emitted' = <<>>
    /\ UNCHANGED <<fbW, fbH, fbColor, fbDepth, aborted, assertFailed, cleared>>
    /\ UNCHANGED <<vb, ibData, stray, ctx, varyingSize, drawPath, prims, frags, drawsDone>>
    /\ UNCHANGED clipVars
    /\ UNCHANGED callVars

\* drawBuffer is about to return
Returning == drawPc = "return" \/ (drawPc = "raster" /\ frags = <<>> /\ prims = <<>>)

\* the return of drawBuffer from a path that stops before the assembly allocates
DrawReturnEarly ==
    /\ drawPc = "return"
    /\ drawPc' = "idle"
    /\ UNCHANGED arena
    /\ ForgetCall

\* ARENA_RESET and the return of drawTriangles, drawLines, drawPoints and drawBuffer
DrawReturn ==
    /\ drawPc = "raster"
    /\ frags = <<>>
    /\ prims = <<>>
    /\ arena' = arenaReset(arena)
    /\ drawPc' = "idle"
    /\ ForgetCall

\* srpFramebufferClear between draw calls
DrawClear ==
    /\ drawPc = "idle"
    /\ srpFramebufferClear
    /\ UNCHANGED drawVars
    /\ UNCHANGED callVars
    /\ UNCHANGED clipVars

NextDraw == DrawBuffer \/ RasterizeNext \/ EmitNext \/ DrawReturnEarly \/ DrawReturn \/ DrawClear

SpecDraw == InitDraw /\ [][NextDraw]_vars

-----------------------------------------------------------------------------
(* Claims about draw calls                                                 *)

InDraw == draw # <<>>

RasterPaths == {"triangles", "lines", "points"}

\* the vertex indices that the primitive stream of the call in progress references
ReferencedVertices ==
    IF isPrimitivePoint(draw.primitive)
    THEN { VertexIndex(draw.useIb, Wrap(draw.startIndex + k)) : k \in 0 .. (draw.count - 1) }
    ELSE IF isPrimitiveLine(draw.primitive)
    THEN UNION { LET si == resolveLineTopology(draw.startIndex, k, draw.primitive, draw.count)
                 IN  {VertexIndex(draw.useIb, si[1]), VertexIndex(draw.useIb, si[2])} :
                 k \in 0 .. (computeLineCount(draw.count, draw.primitive) - 1) }
    ELSE UNION { LET si == resolveTriangleTopology(draw.startIndex, k, draw.primitive)
                 IN  {VertexIndex(draw.useIb, si[i]) : i \in 1 .. 3} :
                 k \in 0 .. (computeTriangleCount(draw.count, draw.primitive) - 1) }

\* C3: during a draw call of any primitive type, every fragment handed to the
\* depth test and pixel write has 0 <= x < width and 0 <= y < height.
C3_FragmentsInRange ==
    InDraw => \A i \in 1 .. Len(emitted) :
                 /\ emitted[i].x \in 0 .. (fbW - 1)
                 /\ emitted[i].y \in 0 .. (fbH - 1)

ArenaIsReset == Len(arena.pages) = 1 /\ arena.current = 1 /\ arena.pages[1].used = 0

\* C5: after drawBuffer returns, on every path, the arena is a single page
\* with used offset 0 and current = head.
C5_ArenaResetAfterDraw == drawPc = "idle" => ArenaIsReset

\* C5 witness: a draw whose allocations did not fit the first page has returned
C5_Witness ==
    /\ drawPc = "idle"
    /\ drawsDone >= 1
    /\ drawPath \in RasterPaths
    /\ arena.pageSize > DefaultArenaCapacity

\* C6: within one draw call the vertex shader is invoked exactly once for
\* every vertex index that the primitive stream references.
C6_VertexShaderOncePerIndex ==
    (InDraw /\ drawPc = "raster") =>
        \A v \in ReferencedVertices : Cardinality({i \in 1 .. Len(vsCalls) : vsCalls[i] = v}) = 1

\* C7: a drawBuffer call with count > 0 and startIndex + count greater than
\* the buffer length invokes no vertex shader, hands nothing to the
\* framebuffer and emits an error message; with count = 0 it emits no message.
C7_OutOfRangeRejected ==
    InDraw =>
        /\ (draw.count > 0 /\ draw.startIndex + draw.count > BufferSize(draw.useIb)) =>
              /\ vsCalls = <<>>
              /\ emitted = <<>>
              /\ \E i \in 1 .. Len(messages) : messages[i].type = "ERROR"
        /\ draw.count = 0 => messages = <<>>

\* C8: an indexed draw that reads an index value greater than or equal to the
\* vertex count reports a severity-High error and reads no vertex beyond the
\* vertex buffer's data.
C8_IndexBeyondVerticesReported ==
    (InDraw /\ draw.useIb /\ drawPath \in RasterPaths /\ drawPc # "idle"
        /\ \E v \in ReferencedVertices : v >= Len(vb)) =>
        /\ \E i \in 1 .. Len(messages) : messages[i].type = "ERROR" /\ messages[i].severity = "HIGH"
        /\ \A i \in 1 .. Len(vsCalls) : vsCalls[i] < Len(vb)

-----------------------------------------------------------------------------
(* Triangle specification: TRIANGLES draws of triangles inside the view     *)
(* volume, under every culling state, on framebuffers of several sizes      *)

\* a vertex shader output at the clip position (x, y, z, 1)
NdcVertex(x, y, z) == [pos |-> <<x, y, z, RInt(1)>>, vary |-> RInt(0)]
FlatVertex(p) == NdcVertex(RInt(p[1]), RInt(p[2]), RInt(0))

\* a counter-clockwise triangle, the same triangle clockwise, and three
\* collinear vertices
WindingVertices ==
    <<FlatVertex(<<-1, -1>>), FlatVertex(<<1, -1>>), FlatVertex(<<0, 1>>),
      FlatVertex(<<-1, -1>>), FlatVertex(<<0, 1>>), FlatVertex(<<1, -1>>),
      FlatVertex(<<-1, -1>>), FlatVertex(<<0, 0>>), FlatVertex(<<1, 1>>)>>

\* pairs of triangles on opposite sides of a common edge: the edge is
\* vertical, horizontal, one of the two diagonals of the viewport, or half
\* of a diagonal
SharedEdgePairs ==
    { <<<<0, -1>>, <<0, 1>>, <<-1, 0>>,   <<0, -1>>, <<1, 0>>, <<0, 1>>>>,
      <<<<-1, 0>>, <<1, 0>>, <<0, 1>>,    <<-1, 0>>, <<0, -1>>, <<1, 0>>>>,
      <<<<-1, -1>>, <<1, 1>>, <<-1, 1>>,  <<-1, -1>>, <<1, -1>>, <<1, 1>>>>,
      <<<<-1, 1>>, <<1, -1>>, <<1, 1>>,   <<-1, 1>>, <<-1, -1>>, <<1, -1>>>>,
      <<<<-1, -1>>, <<-1, 1>>, <<1, 1>>,  <<1, 1>>, <<1, -1>>, <<-1, -1>>>>,
      <<<<0, 1>>, <<0, -1>>, <<-1, -1>>,  <<0, 1>>, <<1, 1>>, <<0, -1>>>>,
      <<<<-1, 1>>, <<0, 0>>, <<-1, -1>>,  <<-1, 1>>, <<0, 0>>, <<1, 0>>>> }

\* a quad over the whole viewport at depth z, as two triangles
FullScreenQuad(z) ==
    <<NdcVertex(RInt(-1), RInt(-1), z), NdcVertex(RInt(1), RInt(-1), z), NdcVertex(RInt(1), RInt(1), z),
      NdcVertex(RInt(-1), RInt(-1), z), NdcVertex(RInt(1), RInt(1), z), NdcVertex(RInt(-1), RInt(1), z)>>

TwoQuads == FullScreenQuad(R(-1, 2)) \o FullScreenQuad(R(1, 2))

CullFaces == {"NONE", "FRONT", "BACK", "FRONT_AND_BACK"}
FrontFaces == {"CCW", "CW"}

MaxSide == 4        \* framebuffer width and height

\* [vertices, size of the framebuffer, cullFace, frontFace]
TriScenes ==
    { [vertices |-> WindingVertices, w |-> MaxSide, h |-> MaxSide, cullFace |-> c, frontFace |-> f] :
        c \in CullFaces, f \in FrontFaces }
    \cup { [vertices |-> SeqMap(FlatVertex, pair), w |-> MaxSide, h |-> MaxSide,
            cullFace |-> "NONE", frontFace |-> "CCW"] : pair \in SharedEdgePairs }
    \cup { [vertices |-> TwoQuads, w |-> w, h |-> h, cullFace |-> "NONE", frontFace |-> "CCW"] :
            w \in 2 .. MaxSide, h \in {2, MaxSide} }

\* <<startIndex, count>> of the TRIANGLES draws
TriRanges == { <<0, 3>>, <<3, 3>>, <<6, 3>>, <<0, 6>>, <<0, 12>> }

\* a fragment shader that outputs red for fragments in the near half of the
\* depth range and blue for those in the far half
DepthShader(frag) ==
    [color |-> IF RLe(frag.z, RInt(0))
               THEN <<RInt(1), RInt(0), RInt(0), RInt(1)>>
               ELSE <<RInt(0), RInt(0), RInt(1), RInt(1)>>,
     depthIsNaN |-> TRUE, fragDepth |-> RInt(0)]

\* srpNewContext, srpContextSetI, srpNewFramebuffer (planes not initialized), a vertex buffer
InitTri ==
    /\ ClipIdle
    /\ CallIdle
    /\ \E scene \in TriScenes :
          /\ fbW = scene.w /\ fbH = scene.h
          /\ fbDepth = [p \in 0 .. (scene.w * scene.h - 1) |-> RInt(0)]
          /\ fbColor = [p \in 0 .. (scene.w * scene.h - 1) |-> <<0, 0, 0, 255>>]
          /\ vb = scene.vertices
          /\ ctx = [cullFace |-> scene.cullFace, frontFace |-> scene.frontFace, pointSize |-> RInt(1)]
    /\ aborted = FALSE
    /\ assertFailed = FALSE
    /\ cleared = FALSE
    /\ emitted = <<>>
    /\ ibData = <<>>
    /\ stray = ZeroStray
    /\ varyingSize = 8
    /\ arena = newArena(DefaultArenaCapacity)
    /\ messages = <<>>
    /\ drawPc = "idle"
    /\ draw = <<>>
    /\ drawPath = ""
    /\ vsCalls = <<>>
    /\ prims = <<>>
    /\ frags = <<>>
    /\ drawsDone = 0

\* drawBuffer(NULL, vb, fb, sp, SRP_PRIM_TRIANGLES, startIndex, count) on a range of the buffer
TriDraw ==
    /\ drawPc = "idle"
    /\ drawsDone < MaxDraws
    /\ \E range \in TriRanges :
          /\ range[1] + range[2] <= Len(vb)
          /\ drawBuffer(FALSE, "TRIANGLES", range[1], range[2])

TriEmit == EmitWith(DepthShader)

NextTri == TriDraw \/ RasterizeNext \/ TriEmit \/ DrawReturnEarly \/ DrawReturn \/ DrawClear

SpecTri == InitTri /\ [][NextTri]_vars

-----------------------------------------------------------------------------
(* Claims about triangle setup and rasterization                           *)

\* the call in progress draws the single triangle vb[startIndex + 1 .. startIndex + 3]
OneTriangleCall == InDraw /\ draw.primitive = "TRIANGLES" /\ ~draw.useIb /\ draw.count = 3

CallTriangle == [i \in 1 .. 3 |-> vb[draw.startIndex + i]]

\* the signed area of (v1 - v0, v2 - v0) in normalized device coordinates
NdcSignedArea(tri) ==
    signedAreaParallelogram(Sub2(applyPerspectiveDivide(tri[2]).pos, applyPerspectiveDivide(tri[1]).pos),
                            Sub2(applyPerspectiveDivide(tri[3]).pos, applyPerspectiveDivide(tri[1]).pos))

\* twice the area of the triangle's image on the screen
ScreenAreaX2(tri) ==
    RAbs(signedAreaParallelogram(
            Sub2(framebufferNDCToScreenSpace(applyPerspectiveDivide(tri[2]).pos),
                 framebufferNDCToScreenSpace(applyPerspectiveDivide(tri[1]).pos)),
            Sub2(framebufferNDCToScreenSpace(applyPerspectiveDivide(tri[3]).pos),
                 framebufferNDCToScreenSpace(applyPerspectiveDivide(tri[1]).pos))))

\* front-facing as the culling rule states it
StatedFrontFacing(tri) == RGt(NdcSignedArea(tri), RInt(0)) <=> (ctx.frontFace = "CCW")

\* the culling rule: the triangles that setup is to drop
StatedDropped(tri) ==
    \/ StatedFrontFacing(tri) /\ ctx.cullFace = "FRONT"
    \/ ~StatedFrontFacing(tri) /\ ctx.cullFace = "BACK"
    \/ ctx.cullFace = "FRONT_AND_BACK"
    \/ RoughlyZero(ScreenAreaX2(tri))

\* a draw of one triangle that the culling rule drops hands nothing to the
\* rasterizer and the fragment emitter, and setupTriangle fails for exactly
\* the triangles of the rule
DroppedAsStated ==
    (OneTriangleCall /\ drawPc # "idle") =>
        /\ setupTriangle(CallTriangle).success <=> ~StatedDropped(CallTriangle)
        /\ StatedDropped(CallTriangle) => (prims = <<>> /\ frags = <<>> /\ emitted = <<>>)

\* the draw call of one triangle assembles a primitive exactly when the rule
\* keeps the triangle (the call changes neither the buffer nor the context)
AssembledUnlessDropped ==
    (drawPc = "idle" /\ drawPc' # "idle" /\ draw'.count = 3) =>
        ((prims' = <<>>) <=> StatedDropped([i \in 1 .. 3 |-> vb[draw'.startIndex + i]]))

\* the steps of a draw call of a dropped triangle leave the framebuffer as it is
DroppedLeavesFramebuffer ==
    (OneTriangleCall /\ StatedDropped(CallTriangle)) => UNCHANGED <<fbColor, fbDepth>>

\* C11: setup drops a triangle (no primitive, no fragment) exactly when it is
\* front-facing and cullFace is FRONT, or back-facing and cullFace is BACK, or
\* cullFace is FRONT_AND_BACK, or its screen-space area is <= EPSILON, where
\* front-facing means (signedArea > 0) = (frontFace = CCW); the draw of a
\* dropped triangle leaves the framebuffer unchanged.
C11_CullingRule ==
    /\ []DroppedAsStated
    /\ [][AssembledUnlessDropped]_vars
    /\ [][DroppedLeavesFramebuffer]_vars

\* C11 witness: on a cleared framebuffer the draw of a clockwise triangle with
\* cullFace = BACK and frontFace = CCW is about to return, nothing emitted
C11_Witness ==
    /\ OneTriangleCall
    /\ drawPath = "triangles"
    /\ Returning
    /\ cleared
    /\ ctx.cullFace = "BACK" /\ ctx.frontFace = "CCW"
    /\ RLt(NdcSignedArea(CallTriangle), RInt(0))
    /\ emitted = <<>>
    /\ \A p \in Pixels : fbColor[p] = ClearColor /\ fbDepth[p] = ClearDepth

\* the call in progress draws the two triangles vb[startIndex + 1 .. startIndex + 6]
TwoTriangleCall == InDraw /\ draw.primitive = "TRIANGLES" /\ ~draw.useIb /\ draw.count = 6

\* the screen-space images of the vertices that the two triangles have in common
SharedCorners ==
    { framebufferNDCToScreenSpace(applyPerspectiveDivide(vb[draw.startIndex + i]).pos) : i \in 1 .. 3 }
    \cap { framebufferNDCToScreenSpace(applyPerspectiveDivide(vb[draw.startIndex + i]).pos) : i \in 4 .. 6 }

\* the center of pixel (x, y) lies on the line through the corners a and b
CenterOnLine(x, y, a, b) ==
    signedAreaParallelogram(Sub2(b, a), Sub2(<<RAdd(RInt(x), Half), RAdd(RInt(y), Half)>>, a)) = RInt(0)

CenterOnSharedEdge(x, y) ==
    \E a \in SharedCorners : \E b \in SharedCorners \ {a} : CenterOnLine(x, y, a, b)

\* C12: when two non-degenerate triangles on opposite sides of a shared edge
\* are drawn in one draw call with cullFace = NONE, no pixel whose center
\* lies on the shared edge receives a fragment from both triangles.
C12_SharedEdgeOnce ==
    (TwoTriangleCall /\ ctx.cullFace = "NONE" /\ Cardinality(SharedCorners) = 2) =>
        \A i \in 1 .. Len(emitted) : \A j \in (i + 1) .. Len(emitted) :
            (emitted[i].x = emitted[j].x /\ emitted[i].y = emitted[j].y)
                => ~CenterOnSharedEdge(emitted[i].x, emitted[i].y)

\* the first draw call since the framebuffer was cleared is about to return
FirstDrawOnCleared == InDraw /\ Returning /\ cleared /\ drawsDone = 1 /\ ~aborted

DefaultCulling == ctx.cullFace = "NONE" /\ ctx.frontFace = "CCW"

Red == <<255, 0, 0, 255>>       \* 0xFF0000FF
Blue == <<0, 0, 255, 255>>      \* 0x0000FFFF

\* C13: on a cleared 4x4 framebuffer, a TRIANGLES draw of the
\* counter-clockwise clip-space vertices (-1,-1,0,1), (1,-1,0,1), (0,1,0,1)
\* with the default context and a fragment shader that outputs (1,0,0,1)
\* leaves pixel (2,3) equal to 0xFF0000FF and pixel (0,0) equal to 0x00000000.
C13_RedTriangle ==
    (/\ FirstDrawOnCleared /\ OneTriangleCall /\ DefaultCulling
     /\ fbW = 4 /\ fbH = 4
     /\ CallTriangle = <<FlatVertex(<<-1, -1>>), FlatVertex(<<1, -1>>), FlatVertex(<<0, 1>>)>>)
        => /\ fbColor[PixelIndex(2, 3)] = Red
           /\ fbColor[PixelIndex(0, 0)] = ClearColor

\* the call in progress draws the two full-screen quads, the near one first
TwoQuadsCall ==
    /\ InDraw /\ draw.primitive = "TRIANGLES" /\ ~draw.useIb
    /\ draw.startIndex = 0 /\ draw.count = 12
    /\ vb = TwoQuads

\* C14: on a cleared framebuffer of any size, a full-screen quad at z = -0.5
\* in red and then a full-screen quad at z = +0.5 in blue leave every pixel,
\* the last row and the last column included, with color 0x0000FFFF and
\* stored depth +0.5.
C14_DepthTestQuads ==
    (FirstDrawOnCleared /\ TwoQuadsCall /\ DefaultCulling)
        => \A p \in Pixels : fbColor[p] = Blue /\ fbDepth[p] = R(1, 2)

-----------------------------------------------------------------------------
(* Claims about the order of fragments                                     *)

\* fragment f comes before fragment g in scanline (row-major) order
ScanBefore(f, g) == f.y < g.y \/ (f.y = g.y /\ f.x < g.x)

\* the pixel of a line at parameter t between its screen-space end points
LinePixelAt(line, t) ==
    LET ss0 == framebufferNDCToScreenSpace(line.v[1].pos)
        ss1 == framebufferNDCToScreenSpace(line.v[2].pos)
    IN  <<RRound(RAdd(ss0[1], RMul(t, RSub(ss1[1], ss0[1])))),
          RRound(RAdd(ss0[2], RMul(t, RSub(ss1[2], ss0[2]))))>>

\* fs, in this order, are fragments of primitive prim only: in scanline order
\* without repetition for a triangle or a point, at the parameters
\* 0 < 1/n < 2/n < ... < 1 for a line
OrderedFragments(prim, fs) ==
    /\ \A i \in 1 .. Len(fs) : fs[i].id = prim.id
    /\ IF prim.kind = "line"
       THEN /\ Len(fs) >= 2
            /\ \A i \in 1 .. Len(fs) : <<fs[i].x, fs[i].y>> = LinePixelAt(prim, R(i - 1, Len(fs) - 1))
       ELSE \A i \in 1 .. Len(fs) : \A j \in (i + 1) .. Len(fs) : ScanBefore(fs[i], fs[j])

\* a rasterizer is called when the fragments of the previous primitive have
\* all been emitted; its fragments are ordered, and every primitive still to
\* come has a greater ID
RasterizedInOrder ==
    (InDraw /\ prims # <<>> /\ prims' = Tail(prims)) =>
        /\ frags = <<>>
        /\ OrderedFragments(Head(prims), frags')
        /\ \A i \in 1 .. Len(prims') : prims'[i].id > Head(prims).id

\* the fragment emitter receives the fragments in the rasterizer's order
EmittedInOrder ==
    (InDraw /\ Len(emitted') = Len(emitted) + 1) =>
        /\ frags # <<>>
        /\ emitted'[Len(emitted')].x = Head(frags).x
        /\ emitted'[Len(emitted')].y = Head(frags).y
        /\ frags' = Tail(frags)
        /\ prims' = prims

\* C15: within one draw call the fragments reach the fragment emitter in
\* primitive-ID order, all fragments of a primitive before any of the next;
\* within a triangle in scanline order (y ascending, then x ascending, each
\* pixel at most once), within a line in order of increasing parameter t,
\* within a point in row-major order.
C15_FragmentOrder ==
    /\ [][RasterizedInOrder]_vars
    /\ [][EmittedInOrder]_vars

\* C15 witness: fragments of the first primitive have been emitted and the
\* second primitive of the draw call has two or more fragments to emit
C15_Witness ==
    /\ InDraw /\ drawPc = "raster"
    /\ emitted # <<>>
    /\ Len(frags) >= 2
    /\ Head(frags).id = 1

-----------------------------------------------------------------------------
(* Topology specification: the primitive count of a vertex stream and the  *)
(* stream indices of its primitives, as the assembly loops compute them     *)

MaxVertexCount == 6

\* the streams [base, base + vertexCount - 1] of size_t indices
TopoInputs ==
    { [prim |-> prim, base |-> base, vertexCount |-> vertexCount] :
        prim \in TrianglePrimitives \cup LinePrimitives,
        base \in {0, 2, SizeMax + 1 - MaxVertexCount},
        vertexCount \in 0 .. MaxVertexCount }

InitTopo ==
    /\ FbIdle
    /\ ClipIdle
    /\ DrawIdle
    /\ topoIn \in TopoInputs
    /\ topoOut = <<>>
    /\ ctxCall = <<>>
    /\ ctxCalls = 0
    /\ callIn = <<>>
    /\ callOut = <<>>

\* computeTriangleCount / computeLineCount
TopoCount ==
    /\ topoOut = <<>>
    /\ topoOut' = [count |-> IF isPrimitiveTriangle(topoIn.prim)
                             THEN computeTriangleCount(topoIn.vertexCount, topoIn.prim)
                             ELSE computeLineCount(topoIn.vertexCount, topoIn.prim),
                   indices |-> <<>>]
    /\ UNCHANGED <<topoIn, ctxCall, ctxCalls, callIn, callOut>>
    /\ UNCHANGED <<fbVars, clipVars, drawVars>>

\* one iteration of the assembly loop: resolveTriangleTopology /
\* resolveLineTopology for the next primitive index
TopoResolve ==
    /\ topoOut # <<>>
    /\ Len(topoOut.indices) < topoOut.count
    /\ topoOut' = [topoOut EXCEPT !.indices =
                      Append(@, IF isPrimitiveTriangle(topoIn.prim)
                                THEN resolveTriangleTopology(topoIn.base, Len(@), topoIn.prim)
                                ELSE resolveLineTopology(topoIn.base, Len(@), topoIn.prim,
                                                         topoIn.vertexCount))]
    /\ UNCHANGED <<topoIn, ctxCall, ctxCalls, callIn, callOut>>
    /\ UNCHANGED <<fbVars, clipVars, drawVars>>

NextTopo == TopoCount \/ TopoResolve

SpecTopo == InitTopo /\ [][NextTopo]_vars

-----------------------------------------------------------------------------
(* Claims about topology                                                   *)

Max0(n) == IF n > 0 THEN n ELSE 0

StatedTriangleCount(prim, V) == IF prim = "TRIANGLES" THEN V \div 3 ELSE Max0(V - 2)

StatedTriangle(prim, b, k) ==
    CASE prim = "TRIANGLES" -> <<b + 3 * k, b + 3 * k + 1, b + 3 * k + 2>>
      [] prim = "TRIANGLE_STRIP" ->
            IF k % 2 = 1 THEN <<b + k + 1, b + k, b + k + 2>> ELSE <<b + k, b + k + 1, b + k + 2>>
      [] prim = "TRIANGLE_FAN" -> <<b, b + k + 1, b + k + 2>>

StatedLineCount(prim, V) ==
    CASE prim = "LINES" -> V \div 2
      [] prim = "LINE_STRIP" -> Max0(V - 1)
      [] prim = "LINE_LOOP" -> IF V > 1 THEN V ELSE 0

StatedLine(prim, b, k, V) ==
    CASE prim = "LINES" -> <<b + 2 * k, b + 2 * k + 1>>
      [] prim = "LINE_STRIP" -> <<b + k, b + k + 1>>
      [] prim = "LINE_LOOP" -> <<b + k, b + ((k + 1) % V)>>

InStream(index) == index >= topoIn.base /\ index <= topoIn.base + topoIn.vertexCount - 1

\* C16: for every triangle topology, vertex count V >= 0 and primitive index
\* k below the count: the count is V / 3 for TRIANGLES and max(0, V - 2) for
\* TRIANGLE_STRIP and TRIANGLE_FAN; the stream indices of primitive k are
\* (b+3k, b+3k+1, b+3k+2), (b+k+1, b+k, b+k+2) for odd k and (b+k, b+k+1, b+k+2)
\* for even k, and (b, b+k+1, b+k+2) respectively; each lies in [b, b+V-1].
C16_TriangleTopology ==
    (topoOut # <<>> /\ isPrimitiveTriangle(topoIn.prim)) =>
        /\ topoOut.count = StatedTriangleCount(topoIn.prim, topoIn.vertexCount)
        /\ \A k \in 0 .. (Len(topoOut.indices) - 1) :
              /\ topoOut.indices[k + 1] = StatedTriangle(topoIn.prim, topoIn.base, k)
              /\ \A i \in 1 .. 3 : InStream(topoOut.indices[k + 1][i])

\* C16 witness: the four triangles of a strip of six vertices have been resolved
C16_Witness ==
    /\ topoOut # <<>>
    /\ topoIn.prim = "TRIANGLE_STRIP"
    /\ topoIn.vertexCount = 6
    /\ topoIn.base > 0
    /\ Len(topoOut.indices) = 4
    /\ topoOut.indices[2] = <<topoIn.base + 2, topoIn.base + 1, topoIn.base + 3>>

-----------------------------------------------------------------------------
(* Claims about the framebuffer's planes                                   *)

\* both planes have width * height elements
PlanesSized == DOMAIN fbColor = Pixels /\ DOMAIN fbDepth = Pixels

\* nothing has been written since srpFramebufferClear returned
JustCleared == cleared /\ emitted = <<>>

ClearedPlanes == \A p \in Pixels : fbColor[p] = <<0, 0, 0, 0>> /\ fbDepth[p] = RInt(-1)

\* C18: after srpFramebufferClear every color word is 0x00000000 and every
\* depth is -1.0; width, height and size never change, and both planes have
\* width * height elements from creation onward.
C18_ClearedFramebuffer ==
    /\ [](PlanesSized /\ (JustCleared => ClearedPlanes))
    /\ [][/\ fbW' = fbW /\ fbH' = fbH
          /\ DOMAIN fbColor' = DOMAIN fbColor /\ DOMAIN fbDepth' = DOMAIN fbDepth]_vars

\* C18 witness: srpFramebufferClear has returned on a framebuffer of two
\* pixels, whose planes srpNewFramebuffer left uninitialized
C18_Witness ==
    /\ JustCleared
    /\ ClearedPlanes
    /\ fbW * fbH = 2
    /\ ~aborted

-----------------------------------------------------------------------------
(* Claims about vertex counts that do not fit the topology                 *)

\* the call in progress is a TRIANGLES or LINES draw that reached primitive assembly
ListCall ==
    /\ InDraw
    /\ draw.primitive \in {"TRIANGLES", "LINES"}
    /\ drawPath \in {"triangles", "lines", "notAssembled"}

VerticesPerPrimitive == IF draw.primitive = "TRIANGLES" THEN 3 ELSE 2

\* the vertices at the leading stream positions that form whole primitives
LeadingVertices ==
    { VertexIndex(draw.useIb, Wrap(draw.startIndex + i)) :
        i \in 0 .. (VerticesPerPrimitive * (draw.count \div VerticesPerPrimitive) - 1) }

\* C19: a TRIANGLES draw with V mod 3 # 0 or a LINES draw with odd V emits
\* exactly one warning of severity Low and still assembles the V / 3 triangles
\* or V / 2 lines of the leading vertices; the excess trailing vertices
\* contribute no primitive.  No warning is emitted when the count fits.
C19_ExcessVerticesWarned ==
    ListCall =>
        /\ IF draw.count % VerticesPerPrimitive # 0
           THEN /\ Len(messages) = 1
                /\ messages[1].type = "WARNING"
                /\ messages[1].severity = "LOW"
           ELSE messages = <<>>
        /\ { vsCalls[i] : i \in 1 .. Len(vsCalls) } = LeadingVertices
        /\ (draw.primitive = "LINES" /\ drawPc = "raster" /\ emitted = <<>> /\ frags = <<>>
                /\ Len(prims) > 0)
              => Len(prims) = draw.count \div 2

\* C19 witness: a TRIANGLES draw of four vertices is rasterizing its one
\* triangle after one warning
C19_Witness ==
    /\ ListCall
    /\ draw.primitive = "TRIANGLES"
    /\ draw.count = 4
    /\ drawPc = "raster"
    /\ Len(messages) = 1
    /\ Len(vsCalls) = 3

-----------------------------------------------------------------------------
(* Context specification: the context's setters and getters, and draw      *)
(* calls with a primitive value that is none of SRPPrimitive's              *)

MaxCtxCalls == 3    \* srpContextSet / srpContextGet calls

\* SRPContextParameter, and a value that is none of its enumerators
ContextParameters ==
    {"MESSAGE_CALLBACK", "MESSAGE_CALLBACK_USER_PARAMETER", "INTERPOLATION_MODE",
     "FRONT_FACE", "CULL_FACE", "POINT_SIZE", "OTHER"}

IntParameters == {"INTERPOLATION_MODE", "FRONT_FACE", "CULL_FACE"}
DoubleParameters == {"POINT_SIZE"}
PointerParameters == {"MESSAGE_CALLBACK_USER_PARAMETER"}

\* the field of SRPContext a parameter selects
ContextField(param) ==
    CASE param = "INTERPOLATION_MODE" -> "interpolationMode"
      [] param = "FRONT_FACE" -> "frontFace"
      [] param = "CULL_FACE" -> "cullFace"
      [] param = "POINT_SIZE" -> "pointSize"
      [] param = "MESSAGE_CALLBACK_USER_PARAMETER" -> "userParameter"

\* the enumerators of SRPInterpolationMode, SRPFrontFace and SRPCullFace, in
\* the order of their values 0, 1, ...
Enumerators(param) ==
    CASE param = "INTERPOLATION_MODE" -> <<"PERSPECTIVE", "AFFINE">>
      [] param = "FRONT_FACE" -> <<"CCW", "CW">>
      [] param = "CULL_FACE" -> <<"NONE", "FRONT", "BACK", "FRONT_AND_BACK">>

\* the enumerator with the int value data, and the int value of an enumerator
EnumName(param, data) == Enumerators(param)[data + 1]
EnumValue(param, name) ==
    CHOOSE v \in 0 .. (Len(Enumerators(param)) - 1) : Enumerators(param)[v + 1] = name

\* arguments of the setters: ints, doubles and pointers
IntData(param) == IF param \in IntParameters THEN 0 .. (Len(Enumerators(param)) - 1) ELSE {1}
DoubleData == {RInt(1), RInt(2), R(1, 2)}
PointerData == {"NULL", "userData"}

UnsupportedParameter(func) == <<Message("ERROR", "HIGH", func)>>

\* what a context call leaves alone, and the record of the call
ContextCall(func, param, data, ret) ==
    /\ drawPc = "idle"
    /\ ctxCalls < MaxCtxCalls
    /\ ctxCall' = [func |-> func, param |-> param, data |-> data, ret |-> ret]
    /\ ctxCalls' = ctxCalls + 1
    /\ UNCHANGED <<topoIn, topoOut, callIn, callOut>>
    /\ UNCHANGED <<vb, ibData, stray, varyingSize, arena, drawPc, draw, drawPath, vsCalls, prims,
                   frags, drawsDone>>
    /\ UNCHANGED fbVars
    /\ UNCHANGED clipVars

\* srpNewContext, srpNewFramebuffer (planes not initialized), a vertex buffer
InitCtx ==
    /\ ClipIdle
    /\ CallIdle
    /\ fbW = 2 /\ fbH = 2
    /\ fbDepth = [p \in 0 .. 3 |-> RInt(0)]
    /\ fbColor = [p \in 0 .. 3 |-> <<0, 0, 0, 255>>]
    /\ aborted = FALSE
    /\ assertFailed = FALSE
    /\ cleared = FALSE
    /\ emitted = <<>>
    /\ vb = WindingVertices
    /\ ibData = <<>>
    /\ stray = ZeroStray
    /\ ctx = [interpolationMode |-> "PERSPECTIVE", frontFace |-> "CCW", cullFace |-> "NONE",
              pointSize |-> RInt(1), userParameter |-> "NULL"]
    /\ varyingSize = 8
    /\ arena = newArena(DefaultArenaCapacity)
    /\ messages = <<>>
    /\ drawPc = "idle"
    /\ draw = <<>>
    /\ drawPath = ""
    /\ vsCalls = <<>>
    /\ prims = <<>>
    /\ frags = <<>>
    /\ drawsDone = 0

srpContextSetP ==
    \E param \in ContextParameters, data \in PointerData :
        /\ ContextCall("srpContextSetP", param, data, <<>>)
        /\ IF param \in PointerParameters
           THEN ctx' = [ctx EXCEPT ![ContextField(param)] = data] /\ messages' = <<>>
           ELSE UNCHANGED ctx /\ messages' = UnsupportedParameter("srpContextSetP")

\* an srpContextSetI whose default branch returns without a message
srpContextSetIQuiet ==
    \E param \in ContextParameters : \E data \in IntData(param) :
        /\ ContextCall("srpContextSetI", param, data, <<>>)
        /\ IF param \in IntParameters
           THEN ctx' = [ctx EXCEPT ![ContextField(param)] = EnumName(param, data)] /\ messages' = <<>>
           ELSE UNCHANGED ctx /\ messages' = <<>>

srpContextSetI ==
    \E param \in ContextParameters : \E data \in IntData(param) :
        /\ ContextCall("srpContextSetI", param, data, <<>>)
        /\ IF param \in IntParameters
           THEN ctx' = [ctx EXCEPT ![ContextField(param)] = EnumName(param, data)] /\ messages' = <<>>
           ELSE UNCHANGED ctx /\ messages' = UnsupportedParameter("srpContextSetI")

srpContextSetD ==
    \E param \in ContextParameters, data \in DoubleData :
        /\ ContextCall("srpContextSetD", param, data, <<>>)
        /\ IF param \in DoubleParameters
           THEN ctx' = [ctx EXCEPT ![ContextField(param)] = data] /\ messages' = <<>>
           ELSE UNCHANGED ctx /\ messages' = UnsupportedParameter("srpContextSetD")

srpContextGetP ==
    \E param \in ContextParameters :
        /\ IF param \in PointerParameters
           THEN ContextCall("srpContextGetP", param, <<>>, ctx[ContextField(param)])
                    /\ messages' = <<>>
           ELSE ContextCall("srpContextGetP", param, <<>>, "NULL")
                    /\ messages' = UnsupportedParameter("srpContextGetP")
        /\ UNCHANGED ctx

srpContextGetI ==
    \E param \in ContextParameters :
        /\ IF param \in IntParameters
           THEN ContextCall("srpContextGetI", param, <<>>, EnumValue(param, ctx[ContextField(param)]))
                    /\ messages' = <<>>
           ELSE ContextCall("srpContextGetI", param, <<>>, 0)
                    /\ messages' = UnsupportedParameter("srpContextGetI")
        /\ UNCHANGED ctx

srpContextGetD ==
    \E param \in ContextParameters :
        /\ IF param \in DoubleParameters
           THEN ContextCall("srpContextGetD", param, <<>>, ctx[ContextField(param)])
                    /\ messages' = <<>>
           ELSE ContextCall("srpContextGetD", param, <<>>, RInt(0))
                    /\ messages' = UnsupportedParameter("srpContextGetD")
        /\ UNCHANGED ctx

\* drawBuffer with a primitive that is no triangle, line or point primitive
DrawUnknown ==
    /\ drawPc = "idle"
    /\ drawsDone < MaxDraws
    /\ \E range \in { <<0, 0>>, <<0, 3>>, <<6, 3>>, <<8, 3>> } :
          drawBuffer(FALSE, "UNKNOWN", range[1], range[2])

NextCtx ==
    \/ srpContextSetP \/ srpContextSetI \/ srpContextSetD
    \/ srpContextGetP \/ srpContextGetI \/ srpContextGetD
    \/ DrawUnknown \/ DrawReturnEarly

SpecCtx == InitCtx /\ [][NextCtx]_vars

-----------------------------------------------------------------------------
(* Claims about the context                                                *)

Setters == {"srpContextSetP", "srpContextSetI", "srpContextSetD"}
Getters == {"srpContextGetP", "srpContextGetI", "srpContextGetD"}

\* the parameters a setter or getter supports
SupportedBy(func) ==
    CASE func \in {"srpContextSetP", "srpContextGetP"} -> PointerParameters
      [] func \in {"srpContextSetI", "srpContextGetI"} -> IntParameters
      [] func \in {"srpContextSetD", "srpContextGetD"} -> DoubleParameters

\* the setter whose values a getter returns
SetterOf(getter) ==
    CASE getter = "srpContextGetP" -> "srpContextSetP"
      [] getter = "srpContextGetI" -> "srpContextSetI"
      [] getter = "srpContextGetD" -> "srpContextSetD"

\* the sentinel a getter returns on error: NULL, 0, 0.0
Sentinel(getter) ==
    CASE getter = "srpContextGetP" -> "NULL"
      [] getter = "srpContextGetI" -> 0
      [] getter = "srpContextGetD" -> RInt(0)

\* what a getter returns for a parameter never set: the values of
\* PERSPECTIVE, CCW and NONE, 1.0, NULL
DefaultOf(param) ==
    CASE param \in IntParameters -> 0
      [] param = "POINT_SIZE" -> RInt(1)
      [] param = "MESSAGE_CALLBACK_USER_PARAMETER" -> "NULL"

OneHighError(msgs) == Len(msgs) = 1 /\ msgs[1].type = "ERROR" /\ msgs[1].severity = "HIGH"

\* a context call was made in this step
ContextStep == ctxCalls' = ctxCalls + 1

\* a call with an unsupported parameter: one Error / High message, the
\* context as it was, the sentinel returned
UnsupportedRejected ==
    (ContextStep /\ ctxCall'.param \notin SupportedBy(ctxCall'.func)) =>
        /\ OneHighError(messages')
        /\ ctx' = ctx
        /\ ctxCall'.func \in Getters => ctxCall'.ret = Sentinel(ctxCall'.func)

\* a call with a supported parameter: no message; a setter changes the one
\* field, a getter changes none
SupportedAccepted ==
    (ContextStep /\ ctxCall'.param \in SupportedBy(ctxCall'.func)) =>
        /\ messages' = <<>>
        /\ \A f \in DOMAIN ctx : f # ContextField(ctxCall'.param) => ctx'[f] = ctx[f]
        /\ DOMAIN ctx' = DOMAIN ctx
        /\ ctxCall'.func \in Getters => ctx' = ctx

\* a getter called right after the setter of the same parameter returns the
\* value set; called before any other call it returns the default
GetReturnsSet ==
    (ContextStep /\ ctxCall'.func \in Getters /\ ctxCall'.param \in SupportedBy(ctxCall'.func)) =>
        /\ ctxCalls = 0 => ctxCall'.ret = DefaultOf(ctxCall'.param)
        /\ (ctxCalls > 0 /\ ctxCall.func = SetterOf(ctxCall'.func) /\ ctxCall.param = ctxCall'.param)
              => ctxCall'.ret = ctxCall.data

\* no context call and no draw call with an unknown primitive touches the framebuffer
FramebufferKept ==
    (ContextStep \/ (drawsDone' # drawsDone /\ draw'.primitive = "UNKNOWN")) =>
        UNCHANGED <<fbW, fbH, fbColor, fbDepth>>

\* a draw call with an unknown primitive that passes the checks of count and
\* range emits one Error / High message and leaves the context as it was
UnknownPrimitiveRejected ==
    (drawsDone' # drawsDone /\ draw'.primitive = "UNKNOWN" /\ draw'.count > 0
        /\ draw'.startIndex + draw'.count <= Len(vb)) =>
        /\ OneHighError(messages')
        /\ ctx' = ctx
        /\ vsCalls' = <<>> /\ prims' = <<>>

\* C20: a context setter or getter called with a parameter it does not
\* support, or drawBuffer with an unknown primitive, emits one message of type
\* Error and severity High, leaves the context and the framebuffer unchanged
\* and returns the sentinel (0, 0.0, NULL for getters); with a supported
\* parameter there is no message, the getter returns the value last set (the
\* defaults being Perspective, CCW, cull None, point size 1.0) and every other
\* field keeps its value.
C20_ContextParameters ==
    /\ [][UnsupportedRejected]_vars
    /\ [][SupportedAccepted]_vars
    /\ [][GetReturnsSet]_vars
    /\ [][FramebufferKept]_vars
    /\ [][UnknownPrimitiveRejected]_vars

\* C20 witness: srpContextGetI(SRP_CONTEXT_CULL_FACE) has returned
\* SRP_CULL_FACE_BACK, set by an earlier call, after a call with an
\* unsupported parameter
C20_Witness ==
    /\ ctxCalls = 3
    /\ ctxCall.func = "srpContextGetI"
    /\ ctxCall.param = "CULL_FACE"
    /\ ctxCall.ret = 2
    /\ ctx.cullFace = "BACK"
    /\ ctx.frontFace = "CCW"
    /\ messages = <<>>

-----------------------------------------------------------------------------
(* Interpolation specification: the position and the attribute of a        *)
(* fragment inside a triangle, along a line, and of a vertex on a clipped  *)
(* edge                                                                    *)

\* the sum of f over 1 .. n, added in index order
RECURSIVE RSum(_, _)
RSum(f, n) == IF n = 0 THEN RInt(0) ELSE RAdd(RSum(f, n - 1), f[n])

\* an interpolateAttributes whose perspective branch omits the division by
\* the interpolated 1/w
interpolateAttributesUndivided(vertices, nVertices, weights, invW, reciprocalInterpolatedInvW, perspective) ==
    [value |-> RSum([i \in 1 .. nVertices |->
                        IF perspective
                        THEN RMul(RMul(vertices[i].vary, invW[i]), weights[i])
                        ELSE RMul(vertices[i].vary, weights[i])], nVertices),
     verticesRead |-> (1 .. 3) \cup (1 .. nVertices),
     slotsWritten |-> 1 .. 3]

\* interpolateAttributes for the one double attribute of the vertex shader:
\* the value written to the output, the elements of vertices[] it reads and
\* the slots of AV[nVertices] it writes (the loop that fills AV runs over
\* i = 0, 1, 2 whatever nVertices is)
interpolateAttributes(vertices, nVertices, weights, invW, reciprocalInterpolatedInvW, perspective) ==
    LET terms == [i \in 1 .. nVertices |->
                    IF perspective
                    THEN RMul(RMul(vertices[i].vary, invW[i]), weights[i])
                    ELSE RMul(vertices[i].vary, weights[i])]
        sum == RSum(terms, nVertices)
    IN  [value |-> IF perspective THEN RMul(sum, reciprocalInterpolatedInvW) ELSE sum,
         verticesRead |-> (1 .. 3) \cup (1 .. nVertices),
         slotsWritten |-> 1 .. 3]

\* triangleInterpolatePosition: <<x, y, z, w>>
triangleInterpolatePosition(tri) ==
    LET coord(c) == RSum([i \in 1 .. 3 |-> RMul(tri.v[i].pos[c], tri.lambda[i])], 3)
    IN  <<coord(1), coord(2), coord(3),
          IF ctx.interpolationMode = "PERSPECTIVE"
          THEN RDiv(RInt(1), RSum([i \in 1 .. 3 |-> RMul(tri.invW[i], tri.lambda[i])], 3))
          ELSE RInt(1)>>

\* triangleInterpolateAttributes
triangleInterpolateAttributes(tri, position) ==
    interpolateAttributes(tri.v, 3, tri.lambda, tri.invW, position[4],
                          ctx.interpolationMode = "PERSPECTIVE")

\* lineInterpolatePosition
lineInterpolatePosition(line, t) ==
    <<Lerp(line.v[1].pos[1], line.v[2].pos[1], t),
      Lerp(line.v[1].pos[2], line.v[2].pos[2], t),
      Lerp(line.v[1].pos[3], line.v[2].pos[3], t),
      IF ctx.interpolationMode = "PERSPECTIVE"
      THEN RDiv(RInt(1), Lerp(line.invW[1], line.invW[2], t))
      ELSE RInt(1)>>

\* lineInterpolateAttributes
lineInterpolateAttributes(line, t, position) ==
    interpolateAttributes(line.v, 2, <<RSub(RInt(1), t), t>>, line.invW, position[4],
                          ctx.interpolationMode = "PERSPECTIVE")

\* the call of interpolateAttributes in interpolateVertex: two vertices, the
\* weights (1-t, t), no invW, affine
interpolateVertexAttributes(a, b, t) ==
    interpolateAttributes(<<a, b>>, 2, <<RSub(RInt(1), t), t>>, <<>>, RInt(0), FALSE)

\* clip-space w of the vertices, their attribute, and where in the primitive
\* the fragment lies
InterpDepths == {1, 2, 10}
InterpAttributes == {0, 1, 10}
Barycentrics ==
    { <<R(1, 2), R(1, 2), RInt(0)>>, <<R(1, 2), RInt(0), R(1, 2)>>, <<RInt(0), R(1, 2), R(1, 2)>>,
      <<R(1, 3), R(1, 3), R(1, 3)>>, <<RInt(1), RInt(0), RInt(0)>>, <<R(1, 4), R(1, 2), R(1, 4)>> }
LineParameters == { RInt(0), R(1, 4), R(1, 2), RInt(1) }

\* the corners of the primitive in normalized device coordinates
InterpCorners == << <<-1, -1>>, <<1, -1>>, <<0, 1>> >>

\* the vertex shader's output for corner i at clip depth w with attribute a
InterpVertex(i, w, a) ==
    [pos |-> <<RInt(InterpCorners[i][1] * w), RInt(InterpCorners[i][2] * w), RInt(0), RInt(w)>>,
     vary |-> RInt(a)]

InterpInputs ==
    { [kind |-> "triangle", v |-> <<InterpVertex(1, w[1], a[1]), InterpVertex(2, w[2], a[2]),
                                    InterpVertex(3, w[3], a[3])>>, at |-> l] :
        w \in [1 .. 3 -> InterpDepths], a \in [1 .. 3 -> InterpAttributes], l \in Barycentrics }
    \cup
    { [kind |-> k, v |-> <<InterpVertex(1, w[1], a[1]), InterpVertex(2, w[2], a[2])>>, at |-> t] :
        k \in {"line", "clipEdge"}, w \in [1 .. 2 -> InterpDepths],
        a \in [1 .. 2 -> InterpAttributes], t \in LineParameters }

InitInterp ==
    /\ FbIdle
    /\ ClipIdle
    /\ topoIn = <<>> /\ topoOut = <<>> /\ ctxCall = <<>> /\ ctxCalls = 0
    /\ callIn \in InterpInputs
    /\ callOut = <<>>
    /\ vb = <<>>
    /\ ibData = <<>>
    /\ stray = <<>>
    /\ \E mode \in {"PERSPECTIVE", "AFFINE"} :
          ctx = [interpolationMode |-> mode, frontFace |-> "CCW", cullFace |-> "NONE",
                 pointSize |-> RInt(1), userParameter |-> "NULL"]
    /\ varyingSize = 8
    /\ arena = <<>>
    /\ messages = <<>>
    /\ drawPc = "idle"
    /\ draw = <<>>
    /\ drawPath = ""
    /\ vsCalls = <<>>
    /\ prims = <<>>
    /\ frags = <<>>
    /\ drawsDone = 0

\* the primitive as assembly hands it to the rasterizer: the vertices after
\* applyPerspectiveDivide, and 1 / w of each
Divided(v) ==
    [v |-> [i \in 1 .. Len(v) |-> applyPerspectiveDivide(v[i])],
     invW |-> [i \in 1 .. Len(v) |-> RDiv(RInt(1), v[i].pos[4])]]

InterpFrame ==
    /\ UNCHANGED <<topoIn, topoOut, ctxCall, ctxCalls, callIn>>
    /\ UNCHANGED <<fbVars, clipVars, drawVars>>

\* triangleInterpolateData at the barycentric coordinates callIn.at
TriangleInterpolateData ==
    /\ callIn.kind = "triangle"
    /\ callOut = <<>>
    /\ LET d == Divided(callIn.v)
           tri == [v |-> d.v, invW |-> d.invW, lambda |-> callIn.at]
       IN  \E position \in {triangleInterpolatePosition(tri)} :
             callOut' = [position |-> position,
                         interpolated |-> triangleInterpolateAttributes(tri, position)]
    /\ InterpFrame

\* lineInterpolateData at the parameter callIn.at
LineInterpolateData ==
    /\ callIn.kind = "line"
    /\ callOut = <<>>
    /\ LET d == Divided(callIn.v)
           line == [v |-> d.v, invW |-> d.invW]
       IN  \E position \in {lineInterpolatePosition(line, callIn.at)} :
             callOut' = [position |-> position,
                         interpolated |-> lineInterpolateAttributes(line, callIn.at, position)]
    /\ InterpFrame

\* interpolateVertex at the parameter callIn.at
ClipInterpolateVertex ==
    /\ callIn.kind = "clipEdge"
    /\ callOut = <<>>
    /\ callOut' = [position |-> interpolateVertex(callIn.v[1], callIn.v[2], callIn.at).pos,
                   interpolated |-> interpolateVertexAttributes(callIn.v[1], callIn.v[2], callIn.at)]
    /\ InterpFrame

NextInterp == TriangleInterpolateData \/ LineInterpolateData \/ ClipInterpolateVertex

SpecInterp == InitInterp /\ [][NextInterp]_vars

-----------------------------------------------------------------------------
(* Claims about interpolation                                              *)

Perspective == ctx.interpolationMode = "PERSPECTIVE"

\* the fragment lies at the screen-space midpoint of an edge of the
\* primitive: two barycentric coordinates are 1/2, or the line parameter is
MidpointOfEdge ==
    /\ callIn # <<>>
    /\ callIn.kind \in {"triangle", "line"}
    /\ callOut # <<>>
    /\ IF callIn.kind = "triangle"
       THEN Cardinality({i \in 1 .. 3 : callIn.at[i] = R(1, 2)}) = 2
       ELSE callIn.at = R(1, 2)

\* the two ends of that edge, in vertex order
EdgeEnd(k) ==
    LET ends == IF callIn.kind = "triangle" THEN {i \in 1 .. 3 : callIn.at[i] = R(1, 2)} ELSE {1, 2}
    IN  IF k = 0 THEN SetMin(ends) ELSE SetMax(ends)

\* the attribute and the clip depth at an end of the edge
EndAttribute(k) == callIn.v[EdgeEnd(k)].vary
EndDepth(k) == callIn.v[EdgeEnd(k)].pos[4]

\* the edge spans clip depth 1 to 10 and the attribute differs at its ends
SpansDepths ==
    /\ MidpointOfEdge
    /\ Perspective
    /\ EndDepth(0) = RInt(1) /\ EndDepth(1) = RInt(10)
    /\ EndAttribute(0) # EndAttribute(1)

-----------------------------------------------------------------------------
(* Claims about the capacity of the clipping buffers                       *)

ClippedCapacity == 4    \* SRPTriangle clipped[4] in assembleTriangles, and the 4 triangles reserved per input triangle

\* C22: the polygon produced after each of the six clip planes fits the
\* working buffers poly[] and temp[] of clipTriangle (the bound it asserts
\* after each plane holds), and the number of triangles clipTriangle returns
\* exceeds neither the capacity of the output array nor the arena reservation
\* per input triangle that assembleTriangles provides.
C22_ClipBuffersSuffice ==
    /\ ~clipOverflow
    /\ Len(clipPoly) <= PolyCapacity
    /\ Len(clipOut) <= ClippedCapacity

-----------------------------------------------------------------------------
(* Arena specification: allocations and resets on one arena                *)

MaxArenaCalls == 4      \* arenaAlloc / arenaReset calls

\* request sizes: small ones, and ones around the page size
ArenaSizes ==
    {1, 5, 8, DefaultArenaCapacity - 3, DefaultArenaCapacity, DefaultArenaCapacity + 3,
     3 * DefaultArenaCapacity}

\* newArena(capacity) for a capacity below, at and above the default
ArenaCapacities == {0, DefaultArenaCapacity, 3 * DefaultArenaCapacity}

\* callIn: the sizes requested since the last reset, those requested before
\* it, whether the arena had more than one page when it was reset, and the
\* number of calls made.  callOut: the regions handed out since the last
\* reset, each the page, the offset in the page's data and the size.
InitArena ==
    /\ FbIdle
    /\ ClipIdle
    /\ topoIn = <<>> /\ topoOut = <<>> /\ ctxCall = <<>> /\ ctxCalls = 0
    /\ callIn = [sizes |-> <<>>, previous |-> <<>>, spilled |-> FALSE, calls |-> 0]
    /\ callOut = <<>>
    /\ vb = <<>>
    /\ ibData = <<>>
    /\ stray = <<>>
    /\ ctx = <<>>
    /\ varyingSize = 0
    /\ \E capacity \in ArenaCapacities : arena = newArena(capacity)
    /\ messages = <<>>
    /\ drawPc = "idle"
    /\ draw = <<>>
    /\ drawPath = ""
    /\ vsCalls = <<>>
    /\ prims = <<>>
    /\ frags = <<>>
    /\ drawsDone = 0

ArenaFrame ==
    /\ UNCHANGED <<topoIn, topoOut, ctxCall, ctxCalls>>
    /\ UNCHANGED <<fbVars, clipVars>>
    /\ UNCHANGED <<vb, ibData, stray, ctx, varyingSize, messages, drawPc, draw, drawPath, vsCalls,
                   prims, frags, drawsDone>>

\* arenaAlloc(size) with size > 0: the pointer returned is data + used - size
\* of the page that is current after the call
ArenaAlloc ==
    \E size \in ArenaSizes :
        /\ callIn.calls < MaxArenaCalls
        /\ \E a \in {arenaAlloc(arena, size)} :
              /\ arena' = a
              /\ callOut' = Append(callOut, [page |-> a.current,
                                             offset |-> a.pages[a.current].used - size,
                                             size |-> size])
        /\ callIn' = [callIn EXCEPT !.sizes = Append(@, size), !.calls = @ + 1]
        /\ ArenaFrame

\* arenaReset: every region handed out is invalid from here on
ArenaReset ==
    /\ callIn.calls < MaxArenaCalls
    /\ callIn.sizes # <<>>
    /\ arena' = arenaReset(arena)
    /\ callOut' = <<>>
    /\ callIn' = [sizes |-> <<>>, previous |-> callIn.sizes, spilled |-> Len(arena.pages) > 1,
                  calls |-> callIn.calls + 1]
    /\ ArenaFrame

NextArena == ArenaAlloc \/ ArenaReset

SpecArena == InitArena /\ [][NextArena]_vars

-----------------------------------------------------------------------------
(* Claims about the arena                                                  *)

\* an arenaAlloc call was made in this step
AllocStep == callIn'.calls = callIn.calls + 1 /\ Len(callIn'.sizes) = Len(callIn.sizes) + 1

\* the size requested in this step and the region returned
Requested == callIn'.sizes[Len(callIn'.sizes)]
Returned == callOut'[Len(callOut')]

\* every region handed out since the last reset starts at a multiple of 8 in
\* its page and ends within the page's capacity; no page is used beyond its
\* capacity
RegionsWithinPages ==
    /\ \A i \in 1 .. Len(callOut) :
          /\ callOut[i].page \in 1 .. Len(arena.pages)
          /\ callOut[i].offset >= 0
          /\ callOut[i].offset % 8 = 0
          /\ callOut[i].offset + callOut[i].size <= arena.pages[callOut[i].page].capacity
          /\ callOut[i].offset + callOut[i].size <= arena.pages[callOut[i].page].used
    /\ \A k \in 1 .. Len(arena.pages) : arena.pages[k].used <= arena.pages[k].capacity

\* no two of these regions share a byte
RegionsDisjoint ==
    \A i \in 1 .. Len(callOut) : \A j \in (i + 1) .. Len(callOut) :
        callOut[i].page = callOut[j].page =>
            \/ callOut[i].offset + callOut[i].size <= callOut[j].offset
            \/ callOut[j].offset + callOut[j].size <= callOut[i].offset

\* capacity is pageSize * 2^k for the smallest k >= 0 with pageSize * 2^k >= size
RECURSIVE SmallestDoubling(_, _, _)
SmallestDoubling(capacity, pageSize, size) ==
    IF pageSize >= size THEN capacity = pageSize
    ELSE capacity > pageSize /\ SmallestDoubling(capacity, 2 * pageSize, size)

\* a request the current page cannot hold appends one page of that capacity
\* and is served from its start; any other request appends none
PageAppendedWhenFull ==
    AllocStep =>
        LET cur == arena.pages[arena.current]
        IN  IF AlignUp8(cur.used) + Requested > cur.capacity
            THEN /\ Len(arena'.pages) = Len(arena.pages) + 1
                 /\ Returned.page = Len(arena'.pages)
                 /\ Returned.offset = 0
                 /\ SmallestDoubling(arena'.pages[Returned.page].capacity, arena.pageSize, Requested)
            ELSE /\ Len(arena'.pages) = Len(arena.pages)
                 /\ Returned.page = arena.current

\* an allocation leaves the regions handed out before it, and their pages, in place
RegionsStayValid ==
    AllocStep =>
        /\ SubSeq(callOut', 1, Len(callOut)) = callOut
        /\ \A i \in 1 .. Len(callOut) :
              /\ callOut[i].page <= Len(arena'.pages)
              /\ arena'.pages[callOut[i].page].capacity = arena.pages[callOut[i].page].capacity

\* C23: between two resets, for any sequence of arenaAlloc requests with
\* size > 0, every returned offset is a multiple of 8 within its page,
\* offset + size <= the page's capacity (used <= capacity for every page), no
\* two returned regions overlap, a request the current page cannot hold
\* appends a page of capacity pageSize * 2^k for the smallest k >= 0 with
\* pageSize * 2^k >= size, and earlier regions stay valid until arenaReset.
C23_ArenaRegions ==
    /\ [](RegionsWithinPages /\ RegionsDisjoint)
    /\ [][PageAppendedWhenFull]_vars
    /\ [][RegionsStayValid]_vars

\* C23 witness: three regions are out, the first two in the first page at
\* offsets 0 and 8 (after a request of 5 bytes), the third in a second page
\* of twice the page size
C23_Witness ==
    /\ Len(callOut) = 3
    /\ callOut[1] = [page |-> 1, offset |-> 0, size |-> 5]
    /\ callOut[2].page = 1 /\ callOut[2].offset = 8
    /\ callOut[3].page = 2
    /\ arena.pages[2].capacity = 2 * arena.pageSize

\* the arena has just been reset after allocations that spilled into
\* additional pages
ResetAfterSpill == callIn.sizes = <<>> /\ callIn.spilled

\* C24: after an arenaReset that follows allocations which spilled into
\* additional pages, replaying the same sequence of arenaAlloc requests (same
\* sizes, same order) is served entirely from the first page: no further
\* page is allocated.
C24_ReplayFitsFirstPage ==
    ResetAfterSpill => Len(AllocAll(arena, callIn.previous).pages) = 1

-----------------------------------------------------------------------------
(* Claims about the ids of assembled primitives                            *)

\* the clip-space triangles that clipTriangle returns for the triangles of
\* the draw call d, in order
ClippedOf(d, mode) ==
    Flatten([k \in 1 .. computeTriangleCount(d.count, d.primitive) |->
                LET si == resolveTriangleTopology(d.startIndex, k - 1, d.primitive)
                IN  clipTriangle([i \in 1 .. 3 |-> indexVertexBuffer(VertexIndex(d.useIb, si[i]))],
                                 mode).tris])

\* those of them that the culling rule and the area test keep
Survivors(d, mode) ==
    LET c == ClippedOf(d, mode)
    IN  {j \in 1 .. Len(c) : ~StatedDropped(c[j])}

\* the draw call of this step has assembled its primitives
AssemblyStep == drawPc = "idle" /\ drawPc' = "raster"

\* element i of the array has id i
IdsInArrayOrder == AssemblyStep => \A i \in 1 .. Len(prims') : prims'[i].id = i - 1

\* the array holds as many triangles as survive clipping, culling and the
\* area test, and as many lines as the topology gives
CountsSurvivors ==
    AssemblyStep =>
        /\ isPrimitiveTriangle(draw'.primitive) =>
              \E mode \in OverflowModes : Len(prims') = Cardinality(Survivors(draw', mode))
        /\ isPrimitiveLine(draw'.primitive) =>
              Len(prims') = StatedLineCount(draw'.primitive, draw'.count)

\* no element of the array is a rejected triangle
HoldsSurvivorsOnly ==
    AssemblyStep =>
        \A i \in 1 .. Len(prims') :
            prims'[i].kind = "triangle" =>
                /\ prims'[i].success
                /\ ~(prims'[i].isFrontFacing /\ ctx.cullFace = "FRONT")
                /\ ~(~prims'[i].isFrontFacing /\ ctx.cullFace = "BACK")

\* C25: the triangles and lines returned by assembly carry ids 0, 1, ..., n-1
\* in array order, n being the returned count; ids count only the primitives
\* that survived clipping, culling and the degenerate-area rejection, and a
\* rejected primitive leaves no hole in the array and uses up no id.
C25_IdsCountSurvivors ==
    /\ [][IdsInArrayOrder]_vars
    /\ [][CountsSurvivors]_vars
    /\ [][HoldsSurvivorsOnly]_vars

\* C25 witness: a draw of triangles has assembled two triangles with ids 0
\* and 1 although clipping produced more than two, and none is rasterized yet
C25_Witness ==
    /\ drawPc = "raster"
    /\ drawPath = "triangles"
    /\ Len(prims) = 2
    /\ prims[1].id = 0 /\ prims[2].id = 1
    /\ Len(ClippedOf(draw, "kept")) > 2
    /\ \E j \in 1 .. 2 : j \notin Survivors(draw, "kept")

-----------------------------------------------------------------------------
(* Line clipping specification: clipLine on one line                       *)

\* an iteration of clipLine's loop that never pulls t1 back
clipLinePlaneEntryOnly(v, p, t0, t1) ==
    LET da == planeDistance(v[1], p)
        db == planeDistance(v[2], p)
    IN  IF RLt(da, RInt(0)) /\ RLt(db, RInt(0)) THEN [t0 |-> t0, t1 |-> t1, clipped |-> TRUE]
        ELSE IF (RLt(da, RInt(0)) \/ RLt(db, RInt(0))) /\ ~RoughlyZero(RSub(da, db))
        THEN LET t == RDiv(da, RSub(da, db))
                 n0 == IF RLt(da, RInt(0)) THEN RMax(t0, t) ELSE t0
             IN  [t0 |-> n0, t1 |-> t1, clipped |-> RGt(n0, t1)]
        ELSE [t0 |-> t0, t1 |-> t1, clipped |-> FALSE]

\* one iteration of clipLine's loop, for plane p: the parameters after it and
\* whether the function returns true (fully clipped) from it
clipLinePlane(v, p, t0, t1) ==
    LET da == planeDistance(v[1], p)
        db == planeDistance(v[2], p)
    IN  IF RLt(da, RInt(0)) /\ RLt(db, RInt(0)) THEN [t0 |-> t0, t1 |-> t1, clipped |-> TRUE]
        ELSE IF (RLt(da, RInt(0)) \/ RLt(db, RInt(0))) /\ ~RoughlyZero(RSub(da, db))
        THEN LET t == RDiv(da, RSub(da, db))
                 n0 == IF RLt(da, RInt(0)) THEN RMax(t0, t) ELSE t0
                 n1 == IF RLt(da, RInt(0)) THEN t1 ELSE RMin(t1, t)
             IN  [t0 |-> n0, t1 |-> n1, clipped |-> RGt(n0, n1)]
        ELSE [t0 |-> t0, t1 |-> t1, clipped |-> FALSE]

\* callIn: the line handed to clipLine (two SRPvsOutput).  callOut: the loop
\* variable p, t0 and t1, the line as it is now, and, once clipLine has
\* returned, the value returned.
InitLine ==
    /\ FbIdle
    /\ ClipIdle
    /\ DrawIdle
    /\ topoIn = <<>> /\ topoOut = <<>> /\ ctxCall = <<>> /\ ctxCalls = 0
    /\ \E p0 \in ClipPositions, p1 \in ClipPositions :
          /\ callIn = <<MkVertex(p0, 1), MkVertex(p1, 2)>>
          /\ callOut = [pc |-> "planes", p |-> 0, t0 |-> RInt(0), t1 |-> RInt(1), v |-> callIn,
                        fullyClipped |-> FALSE]

LineFrame ==
    /\ UNCHANGED <<topoIn, topoOut, ctxCall, ctxCalls, callIn>>
    /\ UNCHANGED <<fbVars, clipVars, drawVars>>

\* one iteration of the loop over the planes
ClipLineStep ==
    /\ callOut.pc = "planes"
    /\ callOut.p < PlaneCount
    /\ \E r \in {clipLinePlane(callOut.v, callOut.p, callOut.t0, callOut.t1)} :
          callOut' = [callOut EXCEPT !.t0 = r.t0, !.t1 = r.t1, !.p = @ + 1,
                                     !.pc = IF r.clipped THEN "done" ELSE "planes",
                                     !.fullyClipped = r.clipped]
    /\ LineFrame

\* after the loop: the endpoints whose parameter moved are replaced by
\* interpolateVertex of the two original endpoints, and clipLine returns false
ClipLineReturn ==
    /\ callOut.pc = "planes"
    /\ callOut.p = PlaneCount
    /\ LET A == callOut.v[1]
           B == callOut.v[2]
       IN  callOut' = [callOut EXCEPT
                          !.v = <<IF RGt(callOut.t0, RInt(0)) THEN interpolateVertex(A, B, callOut.t0) ELSE A,
                                  IF RLt(callOut.t1, RInt(1)) THEN interpolateVertex(A, B, callOut.t1) ELSE B>>,
                          !.pc = "done"]
    /\ LineFrame

NextLine == ClipLineStep \/ ClipLineReturn

SpecLine == InitLine /\ [][NextLine]_vars

-----------------------------------------------------------------------------
(* Claims about clipLine                                                   *)

LineReturned == callOut.pc = "done"

\* both original endpoints are outside one plane
BothOutsideOnePlane ==
    \E p \in 0 .. (PlaneCount - 1) :
        RLt(planeDistance(callIn[1], p), RInt(0)) /\ RLt(planeDistance(callIn[2], p), RInt(0))

\* the point of the original segment at parameter t
OnSegment(t) == [i \in 1 .. 4 |-> Lerp(callIn[1].pos[i], callIn[2].pos[i], t)]

\* clipLine has returned false: the parameters are ordered within [0, 1], the
\* endpoints are the points of the original segment at t0 and t1, within
\* EPSILON of the inner side of every plane, and an endpoint whose parameter
\* did not move is the original vertex
KeptLineClipped ==
    (LineReturned /\ ~callOut.fullyClipped) =>
        /\ RLe(RInt(0), callOut.t0) /\ RLe(callOut.t0, callOut.t1) /\ RLe(callOut.t1, RInt(1))
        /\ callOut.v[1].pos = OnSegment(callOut.t0)
        /\ callOut.v[2].pos = OnSegment(callOut.t1)
        /\ Sound(callOut.v[1]) /\ Sound(callOut.v[2])
        /\ callOut.t0 = RInt(0) => callOut.v[1] = callIn[1]
        /\ callOut.t1 = RInt(1) => callOut.v[2] = callIn[2]

\* clipLine returns true when both endpoints are outside one plane or when t0
\* has passed t1, and only then
FullyClippedReported ==
    LineReturned =>
        (callOut.fullyClipped <=> (BothOutsideOnePlane \/ RGt(callOut.t0, callOut.t1)))

\* C26: whenever clipLine reports the line as not fully clipped,
\* 0 <= t0 <= t1 <= 1, both resulting endpoints lie on the original segment
\* with signed distance >= -EPSILON to each of the six planes, and an endpoint
\* is replaced only if its parameter moved; clipLine reports fully clipped
\* when both endpoints are outside one plane or when t0 > t1.
C26_ClipLine == KeptLineClipped /\ FullyClippedReported

\* C26 witness: clipLine returned false for a line that enters and leaves the
\* volume: both endpoints were replaced
C26_Witness ==
    /\ LineReturned
    /\ ~callOut.fullyClipped
    /\ RGt(callOut.t0, RInt(0)) /\ RLt(callOut.t1, RInt(1)) /\ RLt(callOut.t0, callOut.t1)
    /\ ~Sound(callIn[1]) /\ ~Sound(callIn[2])

-----------------------------------------------------------------------------
(* Claims about the rasterization of points                                *)

\* the rasterizer is called for a point in this step
PointRasterized == drawPc = "raster" /\ frags = <<>> /\ prims # <<>> /\ Head(prims).kind = "point"

\* the center (x + 0.5, y + 0.5) of a pixel lies in the square of side s
\* around (cx, cy), the far sides excluded
CenterInSquare(x, y, cx, cy, s) ==
    LET px == RAdd(RInt(x), Half)
        py == RAdd(RInt(y), Half)
        h == RDiv(s, RInt(2))
    IN  /\ RLe(RSub(cx, h), px) /\ RLt(px, RAdd(cx, h))
        /\ RLe(RSub(cy, h), py) /\ RLt(py, RAdd(cy, h))

\* the pixels of the framebuffer that the point v is to cover
StatedPointPixels(v) ==
    LET ss == framebufferNDCToScreenSpace(v.pos)
    IN  { q \in (0 .. (fbW - 1)) \X (0 .. (fbH - 1)) :
            CenterInSquare(q[1], q[2], ss[1], ss[2], ctx.pointSize) }

\* the fragments of a point are one for each of these pixels and no other,
\* each with the stated fragCoord and front-facing
PointFragmentsAsStated ==
    PointRasterized =>
        LET v == Head(prims).v
        IN  /\ { <<frags'[i].x, frags'[i].y>> : i \in 1 .. Len(frags') } = StatedPointPixels(v)
            /\ Len(frags') = Cardinality(StatedPointPixels(v))
            /\ \A i \in 1 .. Len(frags') :
                  /\ frags'[i].fragCoord = <<RAdd(RInt(frags'[i].x), Half), RAdd(RInt(frags'[i].y), Half),
                                             v.pos[3], v.pos[4]>>
                  /\ frags'[i].frontFacing

\* with pointSize <= 0 a draw of points assembles no point and emits no fragment
NoPointWithoutSize ==
    (InDraw /\ isPrimitivePoint(draw.primitive) /\ RLe(ctx.pointSize, RInt(0))) =>
        prims = <<>> /\ frags = <<>> /\ emitted = <<>>

\* C27: rasterizePoint emits a fragment for pixel (x, y) if and only if the
\* pixel is in the framebuffer and its center (x+0.5, y+0.5) satisfies
\* cx - s/2 <= x+0.5 < cx + s/2 and cy - s/2 <= y+0.5 < cy + s/2 for the
\* point's screen position (cx, cy) and s = pointSize; each such pixel gets
\* exactly one fragment, with fragCoord (x+0.5, y+0.5, v.z, v.w) and
\* frontFacing = true; with pointSize <= 0 nothing is drawn.
C27_PointCoverage == []NoPointWithoutSize /\ [][PointFragmentsAsStated]_vars

\* C27 witness: a point of size 2 near a corner of the framebuffer has been
\* rasterized: part of its square lies outside and it has fewer than four
\* fragments
C27_Witness ==
    /\ drawPc = "raster"
    /\ drawPath = "points"
    /\ ctx.pointSize = RInt(2)
    /\ Len(frags) \in 1 .. 3
    /\ frags[1].frontFacing
    /\ frags[1].fragCoord[1] = RAdd(RInt(frags[1].x), Half)

-----------------------------------------------------------------------------
(* Line rasterization specification: rasterizeLine on its own, for lines   *)
(* as assembleOneLine and setupLine hand them over, inside the framebuffer *)
(* and across its left and top sides.                                      *)

\* twice the NDC coordinates of the endpoints
SegmentHalves == {-3, -1, 0, 2}

SegmentEnds == { <<R(a, 2), R(b, 2), RInt(0), RInt(1)>> : a \in SegmentHalves, b \in {-a : a \in SegmentHalves} }

InitSegment ==
    /\ ClipIdle
    /\ DrawIdle
    /\ topoIn = <<>> /\ topoOut = <<>> /\ ctxCall = <<>> /\ ctxCalls = 0
    /\ fbW = 3 /\ fbH = 3
    /\ fbDepth = [p \in 0 .. 8 |-> ClearDepth]
    /\ fbColor = [p \in 0 .. 8 |-> ClearColor]
    /\ aborted = FALSE
    /\ assertFailed = FALSE
    /\ cleared = FALSE
    /\ emitted = <<>>
    /\ \E p0 \in SegmentEnds, p1 \in SegmentEnds :
          callIn = [kind |-> "line", id |-> 0,
                    v |-> <<[pos |-> p0, vary |-> RInt(1)], [pos |-> p1, vary |-> RInt(2)]>>]
    /\ callOut = <<>>

\* rasterizeLine: the fragments it hands to emitFragment, in order
RasterizeSegment ==
    /\ callOut = <<>>
    /\ callOut' = rasterizeLine(callIn)
    /\ UNCHANGED <<topoIn, topoOut, ctxCall, ctxCalls, callIn>>
    /\ UNCHANGED <<fbVars, clipVars, drawVars>>

NextSegment == RasterizeSegment

SpecSegment == InitSegment /\ [][NextSegment]_vars

-----------------------------------------------------------------------------
(* Claims about the rasterization of lines                                 *)

\* rasterizeLine has run
LineRasterized == callIn # <<>> /\ callOut # <<>>

\* the screen-space images of the two endpoints of the line
LineEnd(k) == framebufferNDCToScreenSpace(callIn.v[k].pos)

\* max(1, ceil(max(|dx|, |dy|))) for the endpoint difference
StatedSteps ==
    LET dx == RSub(LineEnd(2)[1], LineEnd(1)[1])
        dy == RSub(LineEnd(2)[2], LineEnd(1)[2])
        c == RCeil(RMax(RAbs(dx), RAbs(dy)))
    IN  IF c < 1 THEN 1 ELSE c

\* the number of fragments of a line
LineFragmentCount == LineRasterized => Len(callOut) = StatedSteps + 1

\* the first and the last fragment of a line
LineEndsAtEndpoints ==
    LineRasterized =>
        /\ callOut[1].x = RRound(LineEnd(1)[1]) /\ callOut[1].y = RRound(LineEnd(1)[2])
        /\ callOut[1].t = RInt(0)
        /\ callOut[Len(callOut)].x = RRound(LineEnd(2)[1])
        /\ callOut[Len(callOut)].y = RRound(LineEnd(2)[2])
        /\ callOut[Len(callOut)].t = RInt(1)

\* consecutive fragments of a line are neighbours
LineConnected ==
    LineRasterized =>
        \A i \in 1 .. (Len(callOut) - 1) :
            /\ Abs(callOut[i + 1].x - callOut[i].x) <= 1
            /\ Abs(callOut[i + 1].y - callOut[i].y) <= 1

\* a line whose endpoints coincide emits the fragments of its one pixel
PointLikeLine ==
    (LineRasterized /\ LineEnd(1) = LineEnd(2)) =>
        \A i \in 1 .. Len(callOut) :
            callOut[i].x = RRound(LineEnd(1)[1]) /\ callOut[i].y = RRound(LineEnd(1)[2])

\* C28: rasterizeLine emits exactly steps + 1 fragments, where
\* steps = max(1, ceil(max(|dx|, |dy|))) for the screen-space endpoint
\* difference; the first fragment is at the rounded position of endpoint 0
\* with t = 0, the last at the rounded position of endpoint 1 with t = 1;
\* consecutive fragments differ by at most one pixel in x and in y; a line
\* whose endpoints coincide emits its pixel without dividing by zero.
C28_LineFragments == LineFragmentCount /\ LineEndsAtEndpoints /\ LineConnected /\ PointLikeLine

\* the parts of C28 other than the one about neighbouring fragments
LinePartsBesideNeighbours == LineFragmentCount /\ LineEndsAtEndpoints /\ PointLikeLine

-----------------------------------------------------------------------------
(* Claims about the accesses of interpolateAttributes                      *)

\* interpolateAttributes has run for the primitive of callIn
AttributesInterpolated == callIn # <<>> /\ callOut # <<>>

\* C29: interpolateAttributes reads only vertices[0 .. nVertices-1] and
\* writes only nVertices slots of its array of per-vertex pointers: called
\* with nVertices = 2 (for a line, and for a clip edge by interpolateVertex)
\* it never indexes a third vertex or a third slot.
C29_AccessesWithinVertices ==
    AttributesInterpolated =>
        /\ callOut.interpolated.verticesRead \subseteq 1 .. Len(callIn.v)
        /\ callOut.interpolated.slotsWritten \subseteq 1 .. Len(callIn.v)

-----------------------------------------------------------------------------
(* Winding specification: setupTriangle and rasterizeTriangle for a        *)
(* triangle inside the view volume, given in one vertex order and in the   *)
(* other, with nothing culled.                                             *)

\* clip-space positions inside the view volume, and the attribute of the vertex
WindingCorners ==
    { MkVertex(<<-1, -1, 0, 1>>, 0), MkVertex(<<1, -1, 1, 1>>, 1), MkVertex(<<0, 2, -1, 2>>, 10),
      MkVertex(<<-1, 1, 0, 1>>, 2), MkVertex(<<0, 0, 0, 1>>, 3), MkVertex(<<2, 0, 2, 2>>, 4) }

InitWinding ==
    /\ ClipIdle
    /\ topoIn = <<>> /\ topoOut = <<>> /\ ctxCall = <<>> /\ ctxCalls = 0
    /\ fbW = 4 /\ fbH = 4
    /\ fbDepth = [p \in 0 .. 15 |-> ClearDepth]
    /\ fbColor = [p \in 0 .. 15 |-> ClearColor]
    /\ aborted = FALSE
    /\ assertFailed = FALSE
    /\ cleared = FALSE
    /\ emitted = <<>>
    /\ vb = <<>>
    /\ ibData = <<>>
    /\ stray = <<>>
    /\ \E mode \in {"PERSPECTIVE", "AFFINE"}, face \in {"CCW", "CW"} :
          ctx = [interpolationMode |-> mode, frontFace |-> face, cullFace |-> "NONE",
                 pointSize |-> RInt(1), userParameter |-> "NULL"]
    /\ varyingSize = 8
    /\ arena = <<>>
    /\ messages = <<>>
    /\ drawPc = "idle"
    /\ draw = <<>>
    /\ drawPath = ""
    /\ vsCalls = <<>>
    /\ prims = <<>>
    /\ frags = <<>>
    /\ drawsDone = 0
    /\ \E a \in WindingCorners, b \in WindingCorners, c \in WindingCorners :
          /\ a # b /\ a # c /\ b # c
          /\ callIn = <<a, b, c>>
    /\ callOut = [given |-> <<>>, swapped |-> <<>>]

\* what rasterizeTriangle does with the set-up triangle s: the pixels it
\* visits with the barycentric coordinates there, and the fragments it emits
\* with the position and the attribute from triangleInterpolateData
RasterizedSetup(s, invW) ==
    IF ~s.success THEN [success |-> FALSE, visited |-> <<>>, frags |-> <<>>]
    ELSE LET visit(q) == [x |-> q[1], y |-> q[2], lambda |-> triangleLambdaAt(s, q)]
             data(f) ==
                 LET tri == [v |-> s.v, invW |-> invW, lambda |-> f.lambda]
                     position == triangleInterpolatePosition(tri)
                 IN  [x |-> f.x, y |-> f.y, frontFacing |-> f.frontFacing,
                      position |-> position,
                      value |-> triangleInterpolateAttributes(tri, position).value]
         IN  [success |-> TRUE,
              visited |-> SeqMap(visit, RowMajor(s.minBP[1], s.maxBP[1] - 1,
                                                 s.minBP[2], s.maxBP[2] - 1)),
              frags |-> SeqMap(data, rasterizeTriangle([id |-> 0] @@ s))]

\* setupTriangle and rasterizeTriangle for the vertices v
RasterizedTriangle(v) == RasterizedSetup(setupTriangle(v), triangleInvW(v))

WindingFrame ==
    /\ UNCHANGED <<topoIn, topoOut, ctxCall, ctxCalls, callIn>>
    /\ UNCHANGED <<fbVars, clipVars, drawVars>>

\* the triangle as given
RasterizeGiven ==
    /\ callOut.given = <<>>
    /\ callOut' = [callOut EXCEPT !.given = RasterizedTriangle(callIn)]
    /\ WindingFrame

\* the triangle with its last two vertices exchanged
RasterizeSwapped ==
    /\ callOut.swapped = <<>>
    /\ callOut' = [callOut EXCEPT !.swapped = RasterizedTriangle(<<callIn[1], callIn[3], callIn[2]>>)]
    /\ WindingFrame

NextWinding == RasterizeGiven \/ RasterizeSwapped

SpecWinding == InitWinding /\ [][NextWinding]_vars

-----------------------------------------------------------------------------
(* Claims about the winding of triangles and their barycentric coordinates *)

BothRasterized == callOut.given # <<>> /\ callOut.swapped # <<>>

\* the pixels of a rasterized triangle with what was interpolated there
FragmentData(r) == { <<r.frags[i].x, r.frags[i].y, r.frags[i].position, r.frags[i].value>> :
                       i \in 1 .. Len(r.frags) }

\* the two orders give the same fragments but for frontFacing
SameButFacing ==
    BothRasterized =>
        /\ callOut.given.success = callOut.swapped.success
        /\ FragmentData(callOut.given) = FragmentData(callOut.swapped)
        /\ Len(callOut.given.frags) = Len(callOut.swapped.frags)
        /\ \A i \in 1 .. Len(callOut.given.frags), j \in 1 .. Len(callOut.swapped.frags) :
              callOut.given.frags[i].frontFacing # callOut.swapped.frags[j].frontFacing

\* the screen-space images of the vertices as given, after the perspective divide
ScreenCorner(k) == framebufferNDCToScreenSpace(applyPerspectiveDivide(callIn[k]).pos)

\* on which side of the edge from corner j to corner k the point lies
SideOf(point, j, k) ==
    signedAreaParallelogram(Sub2(ScreenCorner(k), ScreenCorner(j)), Sub2(point, ScreenCorner(j)))

\* the point lies inside the triangle or on its border
InsideOrOn(point) ==
    \/ \A e \in {<<1, 2>>, <<2, 3>>, <<3, 1>>} : RGe(SideOf(point, e[1], e[2]), RInt(0))
    \/ \A e \in {<<1, 2>>, <<2, 3>>, <<3, 1>>} : RLe(SideOf(point, e[1], e[2]), RInt(0))

\* the barycentric coordinates at the visited pixels of a rasterized triangle
BarycentricsOf(r) ==
    \A i \in 1 .. Len(r.visited) :
        LET l == r.visited[i].lambda
            center == <<RAdd(RInt(r.visited[i].x), Half), RAdd(RInt(r.visited[i].y), Half)>>
        IN  /\ RAdd(l[1], RAdd(l[2], l[3])) = RInt(1)
            /\ (\A k \in 1 .. 3 : RGe(l[k], RInt(0))) <=> InsideOrOn(center)

BarycentricsSound ==
    /\ callOut.given # <<>> => BarycentricsOf(callOut.given)
    /\ callOut.swapped # <<>> => BarycentricsOf(callOut.swapped)

\* C30: with cullFace = None a triangle given as (a, b, c) and the same
\* triangle given as (a, c, b) emit fragments at the same set of pixels with
\* the same interpolated position and attribute per pixel, only frontFacing
\* differs; at every visited pixel of a set-up triangle the three barycentric
\* coordinates sum to 1 and are all >= 0 exactly for pixel centers inside or
\* on the triangle.
C30_WindingAndBarycentrics == SameButFacing /\ BarycentricsSound

\* C30 witness: a triangle with different w at its vertices has been
\* rasterized in both orders under perspective interpolation and has
\* fragments, and some visited pixel lies outside it
C30_Witness ==
    /\ BothRasterized
    /\ ctx.interpolationMode = "PERSPECTIVE"
    /\ \E i \in 1 .. 3 : callIn[i].pos[4] = RInt(2)
    /\ Len(callOut.given.frags) >= 2
    /\ Len(callOut.swapped.frags) >= 2
    /\ \E i \in 1 .. Len(callOut.given.visited) :
          \E k \in 1 .. 3 : RLt(callOut.given.visited[i].lambda[k], RInt(0))

====
